---- MODULE Spec2Model ----
(***************************************************************************)
(* Model of the Pangolin ingress controller's reconciliation engine        *)
(* (internal/controller/ingress_controller.go) for one Ingress object:     *)
(* the cluster object, the reconciler process (API client, domain map,     *)
(* site cache), one Reconcile invocation stepping from one cluster write   *)
(* or Pangolin API call to the next, and the Pangolin side (resources and  *)
(* targets).                                                               *)
(*                                                                         *)
(* Representation.                                                         *)
(*  - A string that the code parses (a host, a base domain) is the         *)
(*    sequence of its characters; the empty string is <<>>.                *)
(*  - The resource-id annotation holds strconv.Itoa(id); Itoa(n) is <<n>>  *)
(*    and the absent/empty annotation is <<>>.                             *)
(*  - A target's IP is "<service>.<namespace>.svc.cluster.local"; it is    *)
(*    the pair <<service, namespace>>.                                     *)
(*  - Every cluster write and every Pangolin call either takes effect and  *)
(*    returns, or fails without effect; failures and process restarts are  *)
(*    drawn from a budget of MaxFaults.                                    *)
(*  - Pangolin answers a call that names a resource that does not exist    *)
(*    with 404, which the client turns into an error (SETUP.md, "API       *)
(*    Errors"; checkResponse).                                             *)
(*  - A target is its id, its resource and its identity triple (site, IP,  *)
(*    port); update-target leaves these as they are.                       *)
(*  - Pangolin hands out resource and target ids in ascending order and    *)
(*    never twice; a Reconcile of a live object begins only while ids up   *)
(*    to MaxTargetID are left for each of its paths.                       *)
(***************************************************************************)
EXTENDS Integers, Sequences, FiniteSets, TLC

\* ------------------------------------------------------------------ bounds
\* Failed calls, failed writes and process restarts in one behaviour.
MaxFaults == 2
\* Largest target id Pangolin hands out.
MaxTargetID == 4
\* Longest host string handed to parseHost on its own.
MaxHostLen == 6
\* Concurrent callers of resolveDomainID or of getSiteInfo, and the calls each
\* of them makes one after the other.
NumWorkers == 2
MaxCalls == 2
\* Longest integer annotation value (characters) and longest headers
\* annotation value (JSON tokens) handed to the annotation parsers.
MaxIntLen == 3
MaxJSONLen == 5

\* --------------------------------------------------------------- the world
Namespace == "default"

\* The class the controller manages unless told otherwise (--ingress-class),
\* and the class names an Ingress may carry.  Spec.IngressClassName is a
\* pointer and the legacy annotation a map entry: <<>> is nil or no entry,
\* <<c>> the class c.
DefaultClass == "pangolin"
ClassNames == {"pangolin", "nginx", "traefik", ""}
ClassRefs == {<<>>} \cup {<<c>> : c \in ClassNames}

\* The hosts of the examples: app.example.com and api.example.com.
ExampleCom == <<"e", "x", "a", "m", "p", "l", "e", ".", "c", "o", "m">>
HostApp == <<"a", "p", "p", ".">> \o ExampleCom
HostApi == <<"a", "p", "i", ".">> \o ExampleCom
\* A host without a registrable domain, and one under a base domain that the
\* Pangolin organization does not have until somebody registers it.
HostLocal == <<"l", "o", "c", "a", "l", "h", "o", "s", "t">>
OtherOrg == <<"o", "t", "h", "e", "r", ".", "o", "r", "g">>
HostOther == <<"a", "p", "p", ".">> \o OtherOrg

\* A path's backend, with the path's PathType (<<>> for nil).
BackendWeb == [Name |-> "web-service", Number |-> 80, PortName |-> "",
               PathType |-> <<"Prefix">>]
BackendApi == [Name |-> "api-service", Number |-> 0, PortName |-> "http",
               PathType |-> <<"Prefix">>]
\* Backends that name a service the namespace does not have, a port name no
\* port of the service carries, and a port number the service does not list.
BackendGone == [BackendWeb EXCEPT !.Name = "gone-service"]
BackendNoPort == [BackendWeb EXCEPT !.Number = 0, !.PortName = "metrics"]
BackendFixed == [BackendWeb EXCEPT !.Number = 8443]

\* Ingress.Spec.Rules: each rule a host and its HTTP paths' backends.
SinglePath == << [Host |-> HostApp, Paths |-> <<BackendWeb>>] >>
MultiPath == << [Host |-> HostApp, Paths |-> <<BackendApi, BackendWeb>>] >>
MultiHost == << [Host |-> HostApp, Paths |-> <<BackendWeb>>],
                [Host |-> HostApi, Paths |-> <<BackendApi>>] >>
\* Rules whose host has no registrable domain, or one Pangolin does not know.
LocalHost == << [Host |-> HostLocal, Paths |-> <<BackendWeb>>] >>
OtherHost == << [Host |-> HostOther, Paths |-> <<BackendWeb>>] >>
\* Rules whose backend is one of the three above.
NoService == << [Host |-> HostApp, Paths |-> <<BackendGone>>] >>
NoPort == << [Host |-> HostApp, Paths |-> <<BackendNoPort>>] >>
FixedPort == << [Host |-> HostApp, Paths |-> <<BackendFixed>>] >>
IngressSpecs == {SinglePath, MultiPath, MultiHost, LocalHost, OtherHost,
                 NoService, NoPort, FixedPort}
\* Rules with one path of each PathType, of a type the API does not define,
\* and of none.
PathTypes == {<<>>, <<"Exact">>, <<"Prefix">>, <<"ImplementationSpecific">>,
              <<"Glob">>}
TypedSpecs ==
    {<< [Host |-> HostApp, Paths |-> <<[BackendWeb EXCEPT !.PathType = pt]>>] >> :
        pt \in PathTypes}

\* The Service objects of the namespace: name -> Spec.Ports.
Services ==
    [n \in {"web-service", "api-service"} |->
        IF n = "web-service"
        THEN {[Name |-> "", Port |-> 80]}
        ELSE {[Name |-> "http", Port |-> 8080]}]

\* What Pangolin's list-domains endpoint returns at first and, once somebody
\* has registered it, the domain it returns as well; what get-site returns.
PangolinDomains == {[ID |-> "dom-1", BaseDomain |-> ExampleCom]}
OtherDomain == [ID |-> "dom-2", BaseDomain |-> OtherOrg]
\* What the organization had for other.org before the domain was registered
\* anew.
FormerDomain == [ID |-> "dom-0", BaseDomain |-> OtherOrg]
PangolinSite == [ID |-> 1, NiceID |-> "site-1", ProxyIP |-> "10.0.0.1"]

NoSite == [ID |-> 0, NiceID |-> "", ProxyIP |-> ""]
NoIngress == [deleting |-> FALSE, fin |-> FALSE, ann |-> <<>>, status |-> <<>>,
              hc |-> FALSE]
NoStart == [settled |-> FALSE, deleting |-> FALSE, fin |-> FALSE, ann |-> <<>>,
            nres |-> 0, ntgt |-> 0, tgts |-> {}]

\* What an object that was provisioned before this process began may have in
\* Pangolin: its resource, and targets left by earlier processes or by hand -
\* two with the triple of SinglePath's backend and one with another port.
LegacyResource ==
    [ID |-> 1, Subdomain |-> <<"a", "p", "p">>, DomainID |-> "dom-1", Full |-> TRUE]
LegacyTargets ==
    {[ID |-> i, Res |-> 1, SiteID |-> PangolinSite.ID,
      IP |-> <<"web-service", Namespace>>,
      Port |-> IF i = 3 THEN 8080 ELSE 80, HC |-> FALSE,
      MatchType |-> "prefix"] : i \in 1..3}

\* ------------------------------------------------------------ pure helpers
Itoa(n) == <<n>>

RECURSIVE Flatten(_)
\* processIngressRules' two loops as one sequence of (host, backend) pairs;
\* a rule without a host is skipped.
Flatten(rules) ==
    IF rules = <<>> THEN <<>>
    ELSE LET r == Head(rules)
             here == IF r.Host = <<>> THEN <<>>
                     ELSE [i \in 1..Len(r.Paths) |->
                              [Host |-> r.Host, Backend |-> r.Paths[i]]]
         IN  here \o Flatten(Tail(rules))

\* The characters of the hosts parseHost is given on its own.
Chars == {"a", "b", ".", " "}

\* F applied to the value of v, v being evaluated once.
With(v, F(_)) == CHOOSE r \in {F(x) : x \in {v}} : TRUE

\* strings.TrimSpace: the string between its first and last non-blank.
TrimSpace(s) ==
    With(s, LAMBDA t :
    With({i \in 1..Len(t) : t[i] # " "}, LAMBDA ink :
        IF ink = {} THEN <<>>
        ELSE SubSeq(t, CHOOSE i \in ink : \A j \in ink : i <= j,
                       CHOOSE i \in ink : \A j \in ink : i >= j)))

\* strings.Split(s, "."): the parts between one dot (or an end of the string)
\* and the next; the empty string gives one empty part.
Split(s) ==
    With(s, LAMBDA t :
    With({0, Len(t) + 1} \cup {i \in 1..Len(t) : t[i] = "."}, LAMBDA cuts :
        [j \in 1..(Cardinality(cuts) - 1) |->
            SubSeq(t,
                   (CHOOSE c \in cuts : Cardinality({e \in cuts : e < c}) = j - 1) + 1,
                   (CHOOSE c \in cuts : Cardinality({e \in cuts : e < c}) = j) - 1)]))

RECURSIVE JoinFrom(_, _, _)
\* The parts from the i-th on, `sep` between them.
JoinFrom(parts, i, sep) ==
    IF i > Len(parts) THEN <<>>
    ELSE IF i = Len(parts) THEN parts[i]
    ELSE parts[i] \o sep \o JoinFrom(parts, i + 1, sep)

\* strings.Join(parts, ".").
Join_NoDots(parts) == With(parts, LAMBDA ps : JoinFrom(ps, 1, <<>>))
Join(parts) == With(parts, LAMBDA ps : JoinFrom(ps, 1, <<".">>))

parseHost(host) ==
    With(TrimSpace(host), LAMBDA h :
    With(Split(h), LAMBDA parts :
    With(Len(parts), LAMBDA n :
        IF h = <<>> THEN [subdomain |-> <<>>, domain |-> <<>>]
        ELSE IF n < 2 THEN [subdomain |-> h, domain |-> <<>>]
        ELSE IF n = 2 THEN [subdomain |-> <<>>, domain |-> Join(parts)]
        ELSE [subdomain |-> Join(SubSeq(parts, 1, n - 2)),
              domain |-> Join(SubSeq(parts, n - 1, n))])))

\* net/http: the status of a successful answer, and of a conflict.
StatusOK == 200
StatusConflict == 409

\* An error is the sequence of its layers, the outermost first: what
\* fmt.Errorf("...: %w", err) returns is a new layer around err.  No error
\* (nil) is <<>>.
ConflictError == <<"*pangolin.ConflictError">>
GenericError == <<"*errors.errorString">>
Wrap(err) == <<"*fmt.wrapError">> \o err

\* checkResponse: nil for 2xx, a ConflictError for 409, an error otherwise.
checkResponse(code) ==
    IF code >= 200 /\ code < 300 THEN <<>>
    ELSE IF code = StatusConflict THEN ConflictError
    ELSE GenericError

\* IsConflict: the error itself is a *ConflictError (a type assertion).
IsConflict(err) == err # <<>> /\ <<Head(err)>> = ConflictError

\* Client.UpdateResource: the error of checkResponse as it is.
ClientUpdateResource(code) == checkResponse(code)

\* createOrUpdatePangolinResource, lines 386-390: nil, or the client's error
\* inside "failed to update Pangolin resource %s: %w".
UpdateError(err) == IF err = <<>> THEN <<>> ELSE Wrap(err)

\* processIngressRules, lines 234-237, and Reconcile, lines 151-154: the
\* error as it is.
RulesError(err) == err
ReconcileError(err) == err

\* An annotation map with a boolean-typed, an integer-typed and a JSON-typed
\* key (healthcheck-enabled, healthcheck-port, headers).  An entry is <<>>
\* when the key is missing and <<v>> when it has the value v; a boolean
\* value is a string, an integer value the sequence of its characters, a
\* headers value the sequence of its JSON tokens.
NoAnnotations == [enabled |-> <<>>, port |-> <<>>, headers |-> <<>>]

\* strconv.ParseBool: the spellings it accepts; anything else is an error
\* (and the value false).
ParseBool(v) ==
    IF v \in {"1", "t", "T", "TRUE", "true", "True"}
    THEN [err |-> FALSE, val |-> TRUE]
    ELSE IF v \in {"0", "f", "F", "FALSE", "false", "False"}
    THEN [err |-> FALSE, val |-> FALSE]
    ELSE [err |-> TRUE, val |-> FALSE]

Digits == <<"0", "1", "2", "3", "4", "5", "6", "7", "8", "9">>
IsDigit(c) == \E i \in 1..10 : Digits[i] = c
DigitVal(c) == (CHOOSE i \in 1..10 : Digits[i] = c) - 1

RECURSIVE Decimal(_, _)
\* The number the digits `ds` spell after the number `acc`.
Decimal(ds, acc) ==
    IF ds = <<>> THEN acc ELSE Decimal(Tail(ds), 10 * acc + DigitVal(Head(ds)))

\* strconv.Atoi, for strings short enough not to overflow: an optional sign
\* and at least one digit, nothing else.
Atoi(v) ==
    LET signed == v # <<>> /\ v[1] \in {"+", "-"}
        ds == IF signed THEN Tail(v) ELSE v
    IN  IF ds = <<>> \/ \E i \in 1..Len(ds) : ~IsDigit(ds[i])
        THEN [err |-> TRUE, val |-> 0]
        ELSE [err |-> FALSE,
              val |-> IF signed /\ v[1] = "-" THEN 0 - Decimal(ds, 0)
                      ELSE Decimal(ds, 0)]

\* JSON tokens: the brackets and the comma of an array, a header object
\* {"name":..,"value":..}, a number, and null.
JSONValues == {"{h}", "7", "null"}

\* The tokens between the brackets are values with commas between them.
IsElements(ts) ==
    \/ ts = <<>>
    \/ /\ Len(ts) % 2 = 1
       /\ \A i \in 1..Len(ts) :
              IF i % 2 = 1 THEN ts[i] \in JSONValues ELSE ts[i] = ","

\* json.Unmarshal into a []Header that is nil before the call: null leaves it
\* nil, an array gives a slice (<<elements>>) with a Header per object and an
\* empty Header per null, a value of another type is an error, and so is
\* text that is not JSON.
Unmarshal(ts) ==
    LET n == Len(ts)
        inner == SubSeq(ts, 2, n - 1)
    IN  IF ts = <<"null">> THEN [err |-> FALSE, val |-> <<>>]
        ELSE IF n >= 2 /\ ts[1] = "[" /\ ts[n] = "]" /\ IsElements(inner)
        THEN [err |-> \E i \in 1..Len(inner) : inner[i] = "7",
              val |-> << [j \in 1..((Len(inner) + 1) \div 2) |->
                            IF inner[2 * j - 1] = "{h}" THEN "h" ELSE ""] >>]
        ELSE [err |-> TRUE, val |-> <<>>]

\* parseBoolAnnotation, lines 623-633: nil (<<>>) or a pointer to the value.
parseBoolAnnotation_KeepsValue(v) ==
    IF v = <<>> \/ v[1] = "" THEN <<>> ELSE <<ParseBool(v[1]).val>>
parseBoolAnnotation(v) ==
    IF v = <<>> \/ v[1] = "" THEN <<>>
    ELSE IF ParseBool(v[1]).err THEN <<>>
    ELSE <<ParseBool(v[1]).val>>

\* parseIntAnnotation, lines 645-655.
parseIntAnnotation(v) ==
    IF v = <<>> \/ v[1] = <<>> THEN <<>>
    ELSE IF Atoi(v[1]).err THEN <<>>
    ELSE <<Atoi(v[1]).val>>

\* parseHeadersAnnotation, lines 658-668: nil or the slice.
parseHeadersAnnotation(v) ==
    IF v = <<>> \/ v[1] = <<>> THEN <<>>
    ELSE IF Unmarshal(v[1]).err THEN <<>>
    ELSE Unmarshal(v[1]).val

\* The port of a backend: its number, or the service port carrying its name;
\* 0 when there is none.
ServicePort_ByNameOnly(backend, ports) ==
    IF \E p \in ports : p.Name = backend.PortName
    THEN (CHOOSE p \in ports : p.Name = backend.PortName).Port
    ELSE 0
ServicePort(backend, ports) ==
    IF backend.Number # 0 THEN backend.Number
    ELSE IF \E p \in ports : p.Name = backend.PortName
         THEN (CHOOSE p \in ports : p.Name = backend.PortName).Port
         ELSE 0

TargetIP(serviceName) == <<serviceName, Namespace>>

RECURSIVE SortByID(_)
\* A set of targets as the list Pangolin returns, by ascending id.
SortByID(S) ==
    IF S = {} THEN <<>>
    ELSE LET t == CHOOSE x \in S : \A y \in S : x.ID <= y.ID
         IN  <<t>> \o SortByID(S \ {t})

\* ------------------------------------------------------------------- state
VARIABLES
    obj,        \* the Ingress object in the cluster
    client,     \* r.PangolinClient # nil
    domainMap,  \* r.domainMap: base domain -> domain id
    siteCache,  \* r.siteCache (NoSite when nil)
    pc,         \* where the running Reconcile stands; "idle" when none runs
    ing,        \* Reconcile's copy of the object
    stale,      \* the object changed in the cluster since Reconcile read it
    k,          \* index of the path being processed
    resourceID, \* createOrUpdatePangolinResource's resourceID
    existing,   \* existingTargets
    active,     \* existingTarget (before the call) / activeTargetID (after)
    todo,       \* the targets the clean-up loop has still to visit
    resources,  \* Pangolin: the set of resources
    targets,    \* Pangolin: the set of targets
    nextRid,    \* Pangolin: next resource id
    nextTid,    \* Pangolin: next target id
    faults,     \* faults spent
    log,        \* the writes and API calls of the current (or last) Reconcile
    result,     \* what the last Reconcile returned
    start,      \* what the current (or last) Reconcile found when it began
    settled,    \* the last Reconcile succeeded and nothing changed since
    delCalled,  \* delete-resource has been called for this object
    domains,    \* Pangolin: the domains of the organization
    host,       \* a host string given to parseHost on its own
    parsed,     \* what parseHost returned for it: <<>> before the call
    ingressClass, \* r.IngressClass, the configured class
    managed,    \* what isManaged returned, called on its own: <<>> before
    annotations, \* an annotation map given to the annotation parsers
    settings,   \* what the parsers extracted from it: <<>> before the calls
    statusCode, \* the HTTP status that answers an update-resource request
    returned,   \* the error Reconcile returned for it: <<>> before it has
    event,      \* an update event: the old and the new annotation map
    admitted,   \* what the annotation predicate said of it: <<>> before
    calls,      \* concurrent callers of resolveDomainID or getSiteInfo
    domainMu,   \* r.domainMu: who holds it shared, who holds it exclusively
    siteMu,     \* r.siteMu
    fetches,    \* successful get-site requests of this process
    overlap     \* two callers have been inside their calls at one time

procVars == <<client, domainMap, siteCache>>
extVars == <<resources, targets, nextRid, nextTid>>
\* What no step of Reconcile changes.
configVars == <<ingressClass>>
pureVars == <<host, parsed, managed, annotations, settings, statusCode, returned,
             event, admitted>>
\* One object's Reconcile, its process and Pangolin.
runVars == <<obj, client, domainMap, siteCache, pc, ing, stale, k, resourceID,
             existing, active, todo, resources, targets, nextRid, nextTid,
             faults, log, result, start, settled, delCalled, domains,
             ingressClass>>
cacheVars == <<calls, domainMu, siteMu, fetches, overlap>>
frameVars == <<domains, configVars, pureVars, cacheVars>>
vars == <<obj, client, domainMap, siteCache, pc, ing, stale, k, resourceID,
          existing, active, todo, resources, targets, nextRid, nextTid,
          faults, log, result, start, settled, delCalled, domains, host,
          parsed, ingressClass, managed, annotations, settings, statusCode,
          returned, event, admitted, calls, domainMu, siteMu, fetches, overlap>>

Work == Flatten(obj.spec)

\* A sync.RWMutex that nobody holds (writer 0: no writer).
Free == [readers |-> {}, writer |-> 0]

\* Nobody calls resolveDomainID or getSiteInfo next to the Reconcile.
NoWorkers ==
    /\ calls = <<>>
    /\ domainMu = Free
    /\ siteMu = Free
    /\ fetches = 0
    /\ overlap = FALSE

\* No Reconcile runs and none has run.
NoReconcile ==
    /\ pc = "idle"
    /\ ing = NoIngress
    /\ stale = FALSE
    /\ k = 0
    /\ resourceID = <<>>
    /\ existing = <<>>
    /\ active = 0
    /\ todo = <<>>
    /\ faults = 0
    /\ log = <<>>
    /\ result = "none"
    /\ start = NoStart
    /\ settled = FALSE
    /\ delCalled = FALSE

\* The reconciler and Pangolin before the first Reconcile of an object that
\* was just created.
NewProcess ==
    /\ NoWorkers
    /\ client = FALSE
    /\ domainMap = <<>>
    /\ siteCache = NoSite
    /\ pc = "idle"
    /\ ing = NoIngress
    /\ stale = FALSE
    /\ k = 0
    /\ resourceID = <<>>
    /\ existing = <<>>
    /\ active = 0
    /\ todo = <<>>
    /\ faults = 0
    /\ log = <<>>
    /\ result = "none"
    /\ start = NoStart
    /\ settled = FALSE
    /\ delCalled = FALSE
    /\ domains = PangolinDomains

NewObject ==
    /\ obj \in [exists : {TRUE}, deleting : {FALSE}, fin : {FALSE},
                ann : {<<>>}, status : {<<>>}, hc : {FALSE},
                className : {<<DefaultClass>>}, classAnn : {<<>>},
                spec : IngressSpecs]
    /\ resources = {}
    /\ targets = {}
    /\ nextRid = 1
    /\ nextTid = 1

\* The object was provisioned by an earlier process.
LegacyObject ==
    /\ obj = [exists |-> TRUE, deleting |-> FALSE, fin |-> TRUE,
              ann |-> Itoa(LegacyResource.ID), status |-> <<>>, hc |-> FALSE,
              className |-> <<DefaultClass>>, classAnn |-> <<>>,
              spec |-> SinglePath]
    /\ resources = {LegacyResource}
    /\ targets = LegacyTargets
    /\ nextRid = 2
    /\ nextTid = 4

\* No update event (two objects without annotations).
NoEvent == [old |-> <<>>, new |-> <<>>]

\* No function is called on its own.
NoCall ==
    /\ host = <<>>
    /\ parsed = <<>>
    /\ managed = <<>>
    /\ annotations = NoAnnotations
    /\ settings = <<>>
    /\ statusCode = StatusOK
    /\ returned = <<>>
    /\ event = NoEvent
    /\ admitted = <<>>

Init ==
    /\ NewProcess
    /\ NewObject \/ LegacyObject
    /\ ingressClass = DefaultClass
    /\ NoCall

\* ------------------------------------------------- leaving and continuing
\* Reconcile returns: `res` is "ok" (nil error) or "err".
Return(res) ==
    /\ pc' = "idle"
    /\ ing' = NoIngress
    /\ stale' = FALSE
    /\ k' = 0
    /\ resourceID' = <<>>
    /\ existing' = <<>>
    /\ active' = 0
    /\ todo' = <<>>
    /\ result' = res
    /\ settled' = (res = "ok" /\ ~stale)

\* Reconcile goes on to its next write or call.
Step(p, ni, n, rid, ex, act, td) ==
    /\ pc' = p
    /\ ing' = ni
    /\ k' = n
    /\ resourceID' = rid
    /\ existing' = ex
    /\ active' = act
    /\ todo' = td
    /\ result' = "running"
    /\ settled' = FALSE
    /\ UNCHANGED stale

Ev(op, id, ok) == [op |-> op, id |-> id, ok |-> ok]
Logs(es) == log' = log \o es
Logged(op, id, ok) == Logs(<<Ev(op, id, ok)>>)

\* A call or write that may fail does so at the price of one fault.
CanFail == faults < MaxFaults
Spend == faults' = faults + 1

ResourceIDs == {r.ID : r \in resources}
TargetsOf_All(id) == targets
TargetsOf(id) == {t \in targets : t.Res = id}

\* updateIngressStatus, after GetResource and getSiteInfo: lines 266-279.
NeedsUpdate_Always(status, proxyIP) == TRUE
NeedsUpdate(status, proxyIP) ==
    IF Len(status) = 0 THEN TRUE ELSE status[1] # proxyIP

StatusDecide_AnyAddress(ni, site) ==
    IF NeedsUpdate(ni.status, site.ProxyIP)
    THEN Step("status_update", [ni EXCEPT !.status = <<site.ProxyIP>>],
              Len(Work) + 1, ni.ann, <<>>, 0, <<>>)
    ELSE Return("ok")
StatusDecide(ni, site) ==
    IF site.ProxyIP = "" THEN Return("ok")
    ELSE IF NeedsUpdate(ni.status, site.ProxyIP)
         THEN Step("status_update", [ni EXCEPT !.status = <<site.ProxyIP>>],
                   Len(Work) + 1, ni.ann, <<>>, 0, <<>>)
         ELSE Return("ok")

\* updateIngressStatus' entry: lines 249-255.
StatusEntry(ni) ==
    IF ni.ann = <<>> THEN Return("ok")
    ELSE Step("get_resource", ni, Len(Work) + 1, ni.ann, <<>>, 0, <<>>)

\* The next path of processIngressRules, or updateIngressStatus after the last.
PathOrStatus(n, ni) ==
    IF n <= Len(Work)
    THEN Step("get_service", ni, n, <<>>, <<>>, 0, <<>>)
    ELSE StatusEntry(ni)

\* processIngressRules, lines 202-205, 221-223 and 234-237, and Reconcile,
\* lines 151-154: the error of a path's step ends Reconcile.
PathFailed_Continues == PathOrStatus(k + 1, ing)
PathFailed == Return("err")

\* resolveDomainID, lines 576 and 600-604: the map has the base domain.
Found_Always(map, dom) == TRUE
Found(map, dom) == dom \in DOMAIN map

\* resolveDomainID, lines 588-598: every listed (base domain, id) pair goes
\* into the map, over what the map had for that base domain.
Merge_Replaces(map, listed) ==
    [b \in {d.BaseDomain : d \in listed} |->
        (CHOOSE d \in listed : d.BaseDomain = b).ID]
Merge_OnlyIntoEmpty(map, listed) ==
    IF map # <<>> THEN map
    ELSE [b \in {d.BaseDomain : d \in listed} |->
             (CHOOSE d \in listed : d.BaseDomain = b).ID]
Merge(map, listed) ==
    [b \in DOMAIN map \cup {d.BaseDomain : d \in listed} |->
        IF \E d \in listed : d.BaseDomain = b
        THEN (CHOOSE d \in listed : d.BaseDomain = b).ID
        ELSE map[b]]

\* The id the map holds for a base domain ("" for none, as a Go map gives).
DomainIDOf(map, dom) == IF dom \in DOMAIN map THEN map[dom] ELSE ""

\* getSiteInfo, lines 567-569: the fetched site goes into the cache.
SiteToCache(site) == site

\* getSiteInfo, lines 553-561: the cached site, or the call.
SiteBranch == IF siteCache # NoSite THEN "list_targets" ELSE "get_site"

\* isManaged, lines 167-179: the class-name field, then the legacy annotation.
isManaged_FieldFirst(className, classAnn, class) ==
    IF className # <<>> THEN className[1] = class
    ELSE classAnn # <<>> /\ classAnn[1] = class
isManaged(className, classAnn, class) ==
    \/ className # <<>> /\ className[1] = class
    \/ classAnn # <<>> /\ classAnn[1] = class

\* Line 385: update when the object carries a resource id, create otherwise.
ResourceBranch_AlwaysCreate(rid) == "create_resource"
ResourceBranch_NeverUpdate(rid) ==
    IF rid # <<>> THEN SiteBranch ELSE "create_resource"
ResourceBranch(rid) ==
    IF rid # <<>> THEN "update_resource" ELSE "create_resource"

\* deletePangolinResources, lines 515-519: nothing to delete without an id.
DeleteBranch_NeverDelete(rid) == "remove_finalizer"
DeleteBranch_AlwaysDelete(rid) == "delete_resource"
DeleteBranch(rid) ==
    IF rid = <<>> THEN "remove_finalizer" ELSE "delete_resource"

\* Lines 401-417: after CreateResource comes the annotation write, and after
\* that the settings update.
AfterCreate_SettingsFirst == "apply_settings"
AfterCreate == "write_annotation"
AfterAnnotation == "apply_settings"

\* pathTypeToMatch, lines 608-620 (`pt` is <<>> for nil).
pathTypeToMatch(pt) ==
    IF pt = <<>> THEN "prefix"
    ELSE IF pt = <<"Exact">> THEN "exact"
    ELSE IF pt = <<"ImplementationSpecific">> THEN "regex"
    ELSE "prefix"

\* processIngressRules, line 228: the log call dereferences path.PathType.
Dereferenced(pt) == IF pt = <<>> THEN "panic" ELSE "ok"

\* Line 443: the identity triple.
Matches_Never(t, siteID, ip, port) == FALSE
Matches(t, siteID, ip, port) ==
    t.SiteID = siteID /\ t.IP = ip /\ t.Port = port

\* Lines 474 and 484: update the matching target, create one when none matches
\* (`found` is the matching target's id, 0 for none).
TargetBranch_AlwaysCreate(found) == "create_target"
TargetBranch(found) == IF found # 0 THEN "update_target" ELSE "create_target"

\* Line 497: every listed target but the active one is stale.
IsStale_KeepsOthers(t, activeID) == FALSE
IsStale_OnlyLower(t, activeID) == t.ID < activeID
IsStale(t, activeID) == t.ID # activeID

\* Lines 496-506 and 508: the clean-up loop's next target, or the end of the
\* path when `td`, the targets it has still to visit, is empty.
NextStale(td) ==
    IF td = <<>> THEN PathOrStatus(k + 1, ing)
    ELSE Step("delete_stale", ing, k, resourceID, existing, active, td)

\* Lines 501-503: a failed DeleteTarget is logged and the loop goes on.
StaleFailed_Aborts(td) == Return("err")
StaleFailed(td) == NextStale(td)

\* Lines 395-399: a failed CreateResource ends the path with nothing stored;
\* `ni` and `rid` are the copy and the id the call would have given.
CreateFailed_StoresID(ni, rid) == Step(AfterCreate, ni, k, rid, <<>>, 0, <<>>)
CreateFailed(ni, rid) == PathFailed

\* Reconcile, lines 125 and 139: an object that is being deleted and does not
\* carry the finalizer is left alone.
DeletingUnheld_Provisions(ni) == PathOrStatus(1, ni)
DeletingUnheld(ni) == Return("ok")

\* Reconcile, lines 145-147: a failed finalizer write ends Reconcile.
FinalizerFailed_Ignored == PathOrStatus(1, ing)
FinalizerFailed == Return("err")

\* Reconcile, lines 128-131: a failed deletePangolinResources ends Reconcile.
DeleteFailed_Ignored ==
    Step("remove_finalizer", ing, k, resourceID, <<>>, 0, <<>>)
DeleteFailed == Return("err")

\* ----------------------------------------------------------------- actions
\* Reconcile, lines 91-148: client initialisation, Get, the deletion branch.
ReconcileStart ==
    /\ pc = "idle"
    /\ ~obj.exists \/ obj.deleting \/ nextTid + Len(Work) - 1 <= MaxTargetID
    /\ log' = <<>>
    /\ start' = [settled |-> settled, deleting |-> obj.deleting, fin |-> obj.fin,
                 ann |-> obj.ann, nres |-> Cardinality(resources),
                 ntgt |-> Cardinality(targets), tgts |-> targets]
    /\ delCalled' = delCalled
    /\ UNCHANGED <<obj, domainMap, siteCache, extVars, frameVars>>
    /\ \/ /\ ~client /\ CanFail /\ Spend
          /\ client' = FALSE
          /\ Return("err")
       \/ /\ client' = TRUE
          /\ UNCHANGED faults
          /\ LET ni == [deleting |-> obj.deleting, fin |-> obj.fin,
                        ann |-> obj.ann, status |-> obj.status, hc |-> obj.hc]
             IN  IF ~obj.exists THEN Return("ok")
                 ELSE IF ~isManaged(obj.className, obj.classAnn, ingressClass)
                 THEN Return("ok")
                 ELSE IF obj.deleting
                 THEN IF obj.fin
                      THEN Step(DeleteBranch(obj.ann), ni, 0, obj.ann, <<>>, 0, <<>>)
                      ELSE DeletingUnheld(ni)
                 ELSE IF ~obj.fin
                 THEN Step("add_finalizer", [ni EXCEPT !.fin = TRUE], 0, <<>>,
                           <<>>, 0, <<>>)
                 ELSE PathOrStatus(1, ni)

\* Reconcile, lines 143-148: r.Update with the finalizer added.
AddFinalizer ==
    /\ pc = "add_finalizer"
    /\ UNCHANGED <<procVars, extVars, start, delCalled, frameVars>>
    /\ \/ /\ ~stale
          /\ obj' = [obj EXCEPT !.fin = ing.fin, !.ann = ing.ann]
          /\ Logged("AddFinalizer", 0, TRUE)
          /\ UNCHANGED faults
          /\ PathOrStatus(1, ing)
       \/ /\ stale \/ CanFail
          /\ faults' = IF stale THEN faults ELSE faults + 1
          /\ Logged("AddFinalizer", 0, FALSE)
          /\ UNCHANGED obj
          /\ FinalizerFailed

\* processIngressRules, lines 195-223, and createOrUpdatePangolinResource up to
\* resolveDomainID's cache lookup, lines 323-345 and 574-581.  The record gets
\* the service lookup and, after it, the check that failed.
GetService ==
    /\ pc = "get_service"
    /\ UNCHANGED <<obj, procVars, extVars, start, delCalled, frameVars>>
    /\ \/ /\ CanFail /\ Spend
          /\ Logged("GetService", k, FALSE)
          /\ PathFailed
       \/ /\ UNCHANGED faults
          /\ LET w == Work[k]
                 name == w.Backend.Name
                 h == parseHost(w.Host)
                 got == Ev("GetService", k, TRUE)
             IN  IF name \notin DOMAIN Services
                 THEN Logged("GetService", k, FALSE) /\ PathFailed
                 ELSE IF ServicePort(w.Backend, Services[name]) = 0
                 THEN Logs(<<got, Ev("ServicePort", k, FALSE)>>) /\ PathFailed
                 ELSE IF Dereferenced(w.Backend.PathType) = "panic"
                 THEN Logs(<<got>>) /\ Return("panic")
                 ELSE IF h.domain = <<>>
                 THEN Logs(<<got, Ev("ParseHost", k, FALSE)>>) /\ PathFailed
                 ELSE IF Found(domainMap, h.domain)
                 THEN /\ Logs(<<got>>)
                      /\ Step(ResourceBranch(ing.ann), ing, k, ing.ann, <<>>, 0, <<>>)
                 ELSE /\ Logs(<<got>>)
                      /\ Step("list_domains", ing, k, ing.ann, <<>>, 0, <<>>)

\* resolveDomainID, lines 583-605: list, merge, look up again.
ListDomains ==
    /\ pc = "list_domains"
    /\ UNCHANGED <<obj, client, siteCache, extVars, start, delCalled, frameVars>>
    /\ \/ /\ CanFail /\ Spend
          /\ Logged("ListDomains", 0, FALSE)
          /\ UNCHANGED domainMap
          /\ PathFailed
       \/ /\ UNCHANGED faults
          /\ LET merged == Merge(domainMap, domains)
                 listing == Ev("ListDomains", 0, TRUE)
             IN  /\ domainMap' = merged
                 /\ IF Found(merged, parseHost(Work[k].Host).domain)
                    THEN /\ Logs(<<listing>>)
                         /\ Step(ResourceBranch(resourceID), ing, k, resourceID,
                                 <<>>, 0, <<>>)
                    ELSE /\ Logs(<<listing, Ev("ResolveDomain", k, FALSE)>>)
                         /\ PathFailed

\* The settings update both branches make: UpdateResource, lines 386 and 412.
UpdateResourceCall ==
    /\ UNCHANGED <<obj, procVars, nextRid, nextTid, targets, start, delCalled,
                   frameVars>>
    /\ LET id == resourceID[1]
           h == parseHost(Work[k].Host)
       IN  \/ /\ id \in ResourceIDs
              /\ resources' = {r \in resources : r.ID # id} \cup
                     {[ID |-> id, Subdomain |-> h.subdomain,
                       DomainID |-> DomainIDOf(domainMap, h.domain),
                       Full |-> TRUE]}
              /\ Logged("UpdateResource", id, TRUE)
              /\ UNCHANGED faults
              /\ Step(SiteBranch, ing, k, resourceID, <<>>, 0, <<>>)
           \/ /\ id \notin ResourceIDs \/ CanFail
              /\ faults' = IF id \notin ResourceIDs THEN faults ELSE faults + 1
              /\ Logged("UpdateResource", id, FALSE)
              /\ UNCHANGED resources
              /\ PathFailed

\* createOrUpdatePangolinResource, lines 385-391: the object has a resource id.
UpdateResource ==
    /\ pc = "update_resource"
    /\ UpdateResourceCall

\* createOrUpdatePangolinResource, lines 394-406: CreateResource, and the new
\* id put into the copy's annotation.
CreateResource ==
    /\ pc = "create_resource"
    /\ UNCHANGED <<obj, procVars, nextTid, targets, start, delCalled, frameVars>>
    /\ LET h == parseHost(Work[k].Host)
       IN  \/ /\ resources' = resources \cup
                     {[ID |-> nextRid, Subdomain |-> h.subdomain,
                       DomainID |-> DomainIDOf(domainMap, h.domain),
                       Full |-> FALSE]}
              /\ nextRid' = nextRid + 1
              /\ Logged("CreateResource", nextRid, TRUE)
              /\ UNCHANGED faults
              /\ Step(AfterCreate, [ing EXCEPT !.ann = Itoa(nextRid)], k,
                      Itoa(nextRid), <<>>, 0, <<>>)
           \/ /\ CanFail /\ Spend
              /\ Logged("CreateResource", 0, FALSE)
              /\ UNCHANGED <<resources, nextRid>>
              /\ CreateFailed([ing EXCEPT !.ann = Itoa(nextRid)], Itoa(nextRid))

\* createOrUpdatePangolinResource, lines 407-409: r.Update with the annotation.
WriteAnnotation ==
    /\ pc = "write_annotation"
    /\ UNCHANGED <<procVars, extVars, start, delCalled, frameVars>>
    /\ \/ /\ ~stale
          /\ obj' = [obj EXCEPT !.fin = ing.fin, !.ann = ing.ann]
          /\ Logged("WriteAnnotation", resourceID[1], TRUE)
          /\ UNCHANGED faults
          /\ Step(AfterAnnotation, ing, k, resourceID, <<>>, 0, <<>>)
       \/ /\ stale \/ CanFail
          /\ faults' = IF stale THEN faults ELSE faults + 1
          /\ Logged("WriteAnnotation", resourceID[1], FALSE)
          /\ UNCHANGED obj
          /\ PathFailed

\* createOrUpdatePangolinResource, lines 411-416: settings for the new resource.
ApplySettings ==
    /\ pc = "apply_settings"
    /\ UpdateResourceCall

\* getSiteInfo, lines 561-570, called from line 419 or line 260.
GetSite ==
    /\ pc = "get_site"
    /\ UNCHANGED <<obj, client, domainMap, extVars, start, delCalled, frameVars>>
    /\ \/ /\ siteCache' = SiteToCache(PangolinSite)
          /\ Logged("GetSite", 0, TRUE)
          /\ UNCHANGED faults
          /\ IF k <= Len(Work)
             THEN Step("list_targets", ing, k, resourceID, <<>>, 0, <<>>)
             ELSE StatusDecide(ing, PangolinSite)
       \/ /\ CanFail /\ Spend
          /\ Logged("GetSite", 0, FALSE)
          /\ UNCHANGED siteCache
          /\ IF k <= Len(Work) THEN PathFailed ELSE Return("err")

\* The triple a path asks for: lines 425-426 and 443.
DesiredIP(w) == TargetIP(w.Backend.Name)
DesiredPort(w) == ServicePort(w.Backend, Services[w.Backend.Name])

\* createOrUpdatePangolinResource, lines 425-447: ListTargets and the search
\* for the target with the desired (site, IP, port).
ListTargets ==
    /\ pc = "list_targets"
    /\ UNCHANGED <<obj, procVars, extVars, start, delCalled, frameVars>>
    /\ LET id == resourceID[1]
           listed == SortByID(TargetsOf(id))
           hits == {i \in 1..Len(listed) :
                       Matches(listed[i], siteCache.ID, DesiredIP(Work[k]),
                               DesiredPort(Work[k]))}
           found == IF hits = {} THEN 0
                    ELSE listed[CHOOSE i \in hits : \A j \in hits : i <= j].ID
       IN  \/ /\ id \in ResourceIDs
              /\ Logged("ListTargets", id, TRUE)
              /\ UNCHANGED faults
              /\ Step(TargetBranch(found), ing, k, resourceID, listed, found, <<>>)
           \/ /\ id \notin ResourceIDs \/ CanFail
              /\ faults' = IF id \notin ResourceIDs THEN faults ELSE faults + 1
              /\ Logged("ListTargets", id, FALSE)
              /\ PathFailed

\* Lines 495-506 entered: the listed targets the clean-up loop deletes.
StaleOf(listed, activeID) == SelectSeq(listed, LAMBDA t : IsStale(t, activeID))

\* After the active target is known: the clean-up loop, or the next path.
CleanUp(activeID) ==
    LET td == StaleOf(existing, activeID)
    IN  IF td = <<>> THEN PathOrStatus(k + 1, ing)
        ELSE Step("delete_stale", ing, k, resourceID, existing, activeID, td)

\* Lines 476-479 and 486-489: a failed UpdateTarget or CreateTarget ends the
\* path before the clean-up loop (`activeID` is the target the call was for,
\* 0 for a target that was not created).
TargetFailed_CleansUp(activeID) == CleanUp(activeID)
TargetFailed(activeID) == PathFailed

\* createOrUpdatePangolinResource, lines 449-483: UpdateTarget on the match,
\* with the payload built from the object as Reconcile read it; the target
\* takes the payload's health-check setting.
UpdateTarget ==
    /\ pc = "update_target"
    /\ UNCHANGED <<obj, procVars, resources, nextRid, nextTid, start, delCalled,
                   frameVars>>
    /\ \/ /\ \E t \in targets : t.ID = active
          /\ targets' = {IF t.ID = active
                          THEN [t EXCEPT !.HC = ing.hc,
                                         !.MatchType = pathTypeToMatch(
                                             Work[k].Backend.PathType)]
                          ELSE t : t \in targets}
          /\ Logged("UpdateTarget", active, TRUE)
          /\ UNCHANGED faults
          /\ CleanUp(active)
       \/ /\ CanFail \/ ~\E t \in targets : t.ID = active
          /\ faults' = IF \E t \in targets : t.ID = active
                       THEN faults + 1 ELSE faults
          /\ Logged("UpdateTarget", active, FALSE)
          /\ UNCHANGED targets
          /\ TargetFailed(active)

\* createOrUpdatePangolinResource, lines 449-471 and 484-493: CreateTarget.
CreateTarget ==
    /\ pc = "create_target"
    /\ UNCHANGED <<obj, procVars, resources, nextRid, start, delCalled, frameVars>>
    /\ \/ /\ nextTid <= MaxTargetID
          /\ targets' = targets \cup
                 {[ID |-> nextTid, Res |-> resourceID[1],
                   SiteID |-> siteCache.ID, IP |-> DesiredIP(Work[k]),
                   Port |-> DesiredPort(Work[k]), HC |-> ing.hc,
                   MatchType |-> pathTypeToMatch(Work[k].Backend.PathType)]}
          /\ nextTid' = nextTid + 1
          /\ Logged("CreateTarget", nextTid, TRUE)
          /\ UNCHANGED faults
          /\ CleanUp(nextTid)
       \/ /\ CanFail /\ Spend
          /\ Logged("CreateTarget", 0, FALSE)
          /\ UNCHANGED <<targets, nextTid>>
          /\ TargetFailed(0)

\* createOrUpdatePangolinResource, lines 496-506: one DeleteTarget of the
\* clean-up loop; its failure is logged and the loop goes on.
DeleteStale ==
    /\ pc = "delete_stale"
    /\ UNCHANGED <<obj, procVars, resources, nextRid, nextTid, start, delCalled,
                   frameVars>>
    /\ LET t == Head(todo)
           here == \E x \in targets : x.ID = t.ID
       IN  \/ /\ here
              /\ targets' = {x \in targets : x.ID # t.ID}
              /\ Logged("DeleteTarget", t.ID, TRUE)
              /\ UNCHANGED faults
              /\ NextStale(Tail(todo))
           \/ /\ ~here \/ CanFail
              /\ faults' = IF here THEN faults + 1 ELSE faults
              /\ Logged("DeleteTarget", t.ID, FALSE)
              /\ UNCHANGED targets
              /\ StaleFailed(Tail(todo))

\* updateIngressStatus, lines 255-279: GetResource, getSiteInfo's cache.
GetResource ==
    /\ pc = "get_resource"
    /\ UNCHANGED <<obj, procVars, extVars, start, delCalled, frameVars>>
    /\ LET id == resourceID[1]
       IN  \/ /\ id \in ResourceIDs
              /\ Logged("GetResource", id, TRUE)
              /\ UNCHANGED faults
              /\ IF siteCache = NoSite
                 THEN Step("get_site", ing, k, resourceID, <<>>, 0, <<>>)
                 ELSE StatusDecide(ing, siteCache)
           \/ /\ id \notin ResourceIDs \/ CanFail
              /\ faults' = IF id \notin ResourceIDs THEN faults ELSE faults + 1
              /\ Logged("GetResource", id, FALSE)
              /\ Return("err")

\* updateIngressStatus, lines 280-285: r.Status().Update.
StatusUpdate ==
    /\ pc = "status_update"
    /\ UNCHANGED <<procVars, extVars, start, delCalled, frameVars>>
    /\ \/ /\ ~stale
          /\ obj' = [obj EXCEPT !.status = ing.status]
          /\ Logged("StatusUpdate", 0, TRUE)
          /\ UNCHANGED faults
          /\ Return("ok")
       \/ /\ stale \/ CanFail
          /\ faults' = IF stale THEN faults ELSE faults + 1
          /\ Logged("StatusUpdate", 0, FALSE)
          /\ UNCHANGED obj
          /\ Return("err")

\* deletePangolinResources, lines 521-528: DeleteResource; Pangolin deletes the
\* resource's targets with it.
DeleteResource ==
    /\ pc = "delete_resource"
    /\ UNCHANGED <<obj, procVars, nextRid, nextTid, start, frameVars>>
    /\ delCalled' = TRUE
    /\ LET id == resourceID[1]
       IN  \/ /\ id \in ResourceIDs
              /\ resources' = {r \in resources : r.ID # id}
              /\ targets' = targets \ TargetsOf(id)
              /\ Logged("DeleteResource", id, TRUE)
              /\ UNCHANGED faults
              /\ Step("remove_finalizer", ing, k, resourceID, <<>>, 0, <<>>)
           \/ /\ id \notin ResourceIDs \/ CanFail
              /\ faults' = IF id \notin ResourceIDs THEN faults ELSE faults + 1
              /\ Logged("DeleteResource", id, FALSE)
              /\ UNCHANGED <<resources, targets>>
              /\ DeleteFailed

\* Reconcile, lines 133-137: r.Update with the finalizer removed; the cluster
\* then removes the object.
RemoveFinalizer ==
    /\ pc = "remove_finalizer"
    /\ UNCHANGED <<procVars, extVars, start, delCalled, frameVars>>
    /\ \/ /\ ~stale
          /\ obj' = [obj EXCEPT !.fin = FALSE, !.exists = FALSE]
          /\ Logged("RemoveFinalizer", 0, TRUE)
          /\ UNCHANGED faults
          /\ Return("ok")
       \/ /\ stale \/ CanFail
          /\ faults' = IF stale THEN faults ELSE faults + 1
          /\ Logged("RemoveFinalizer", 0, FALSE)
          /\ UNCHANGED obj
          /\ Return("err")

\* The user deletes the Ingress: the cluster sets the deletion timestamp, and
\* removes the object at once when it carries no finalizer.
UserDelete ==
    /\ obj.exists /\ ~obj.deleting
    /\ obj' = [obj EXCEPT !.deleting = TRUE, !.exists = obj.fin]
    /\ stale' = (pc # "idle")
    /\ settled' = FALSE
    /\ UNCHANGED <<procVars, pc, ing, k, resourceID, existing, active, todo,
                   extVars, faults, log, result, start, delCalled, frameVars>>

\* The user puts a health-check annotation on an Ingress that is in use.
UserAnnotate ==
    /\ obj.exists /\ ~obj.deleting /\ ~obj.hc
    /\ obj' = [obj EXCEPT !.hc = TRUE]
    /\ stale' = (pc # "idle")
    /\ settled' = FALSE
    /\ UNCHANGED <<procVars, pc, ing, k, resourceID, existing, active, todo,
                   extVars, faults, log, result, start, delCalled, frameVars>>

\* Somebody registers with the organization a base domain that the Ingress
\* uses and the organization lacks.
RegisterDomain ==
    /\ obj.exists
    /\ \E d \in {OtherDomain} \ domains :
          /\ \E i \in 1..Len(Work) : parseHost(Work[i].Host).domain = d.BaseDomain
          /\ domains' = domains \cup {d}
    /\ settled' = FALSE
    /\ UNCHANGED <<obj, procVars, pc, ing, stale, k, resourceID, existing,
                   active, todo, extVars, faults, log, result, start, delCalled,
                   configVars, pureVars, cacheVars>>

\* The controller process restarts: a running Reconcile is cut off where it
\* stands, and the new process has no client and empty caches.
Restart ==
    /\ CanFail /\ Spend
    /\ client' = FALSE
    /\ domainMap' = <<>>
    /\ siteCache' = NoSite
    /\ pc' = "idle"
    /\ ing' = NoIngress
    /\ stale' = FALSE
    /\ k' = 0
    /\ resourceID' = <<>>
    /\ existing' = <<>>
    /\ active' = 0
    /\ todo' = <<>>
    /\ result' = IF pc = "idle" THEN result ELSE "cut"
    /\ settled' = (pc = "idle" /\ settled)
    /\ UNCHANGED <<obj, extVars, log, start, delCalled, frameVars>>

Next ==
    \/ ReconcileStart
    \/ AddFinalizer
    \/ GetService
    \/ ListDomains
    \/ UpdateResource
    \/ CreateResource
    \/ WriteAnnotation
    \/ ApplySettings
    \/ GetSite
    \/ ListTargets
    \/ UpdateTarget
    \/ CreateTarget
    \/ DeleteStale
    \/ GetResource
    \/ StatusUpdate
    \/ DeleteResource
    \/ RemoveFinalizer
    \/ UserDelete
    \/ UserAnnotate
    \/ RegisterDomain
    \/ Restart

Spec == Init /\ [][Next]_vars

\* The runtime retries Reconcile after an error, and a Reconcile that runs goes
\* on to its end.
Run ==
    \/ ReconcileStart \/ AddFinalizer \/ GetService \/ ListDomains
    \/ UpdateResource \/ CreateResource \/ WriteAnnotation \/ ApplySettings
    \/ GetSite \/ ListTargets \/ UpdateTarget \/ CreateTarget \/ DeleteStale
    \/ GetResource \/ StatusUpdate \/ DeleteResource \/ RemoveFinalizer

FairSpec == Spec /\ WF_vars(Run)

\* ------------------------------------------- parseHost as a function alone
\* Every string of at most MaxHostLen characters.
Hosts == UNION {[1..n -> Chars] : n \in 0..MaxHostLen}

ParseInit ==
    /\ NewProcess
    /\ LegacyObject
    /\ ingressClass = DefaultClass
    /\ host \in Hosts
    /\ parsed = <<>>
    /\ managed = <<>>
    /\ annotations = NoAnnotations
    /\ settings = <<>>
    /\ statusCode = StatusOK
    /\ returned = <<>>
    /\ event = NoEvent
    /\ admitted = <<>>

\* createOrUpdatePangolinResource, line 323: the call.
ParseHostCall ==
    /\ parsed = <<>>
    /\ parsed' = <<parseHost(host)>>
    /\ UNCHANGED <<runVars, cacheVars, host, managed, annotations, settings, statusCode,
                   returned, event, admitted>>

ParseNext == ParseHostCall

ParseSpec == ParseInit /\ [][ParseNext]_vars

\* ------------------------------------------- isManaged as a function alone
ManagedInit ==
    /\ NewProcess
    /\ obj \in [exists : {TRUE}, deleting : {FALSE}, fin : {FALSE},
                ann : {<<>>}, status : {<<>>}, hc : {FALSE},
                className : ClassRefs, classAnn : ClassRefs,
                spec : {SinglePath}]
    /\ resources = {}
    /\ targets = {}
    /\ nextRid = 1
    /\ nextTid = 1
    /\ ingressClass \in ClassNames
    /\ NoCall

\* Reconcile, line 116: the call.
IsManagedCall ==
    /\ managed = <<>>
    /\ managed' = <<isManaged(obj.className, obj.classAnn, ingressClass)>>
    /\ UNCHANGED <<runVars, cacheVars, host, parsed, annotations, settings, statusCode,
                   returned, event, admitted>>

ManagedNext == IsManagedCall

ManagedSpec == ManagedInit /\ [][ManagedNext]_vars

\* ------------------------------------- the annotation parsers on their own
BoolTexts == {"", "true", "false", "1", "0", "t", "F", "True", "FALSE",
              "yes", "on", "2", "tRUE", " true"}
IntChars == {"0", "7", "-", "+", "x"}
IntTexts == UNION {[1..n -> IntChars] : n \in 0..MaxIntLen}
JSONTokens == {"[", "]", ","} \cup JSONValues
JSONTexts == UNION {[1..n -> JSONTokens] : n \in 0..MaxJSONLen}

\* A map with at most one of the three keys, of any value.
AnnotationMaps ==
    [enabled : {<<>>} \cup {<<v>> : v \in BoolTexts}, port : {<<>>},
     headers : {<<>>}]
    \cup [enabled : {<<>>}, port : {<<v>> : v \in IntTexts}, headers : {<<>>}]
    \cup [enabled : {<<>>}, port : {<<>>},
          headers : {<<v>> : v \in JSONTexts}]

AnnotInit ==
    /\ NewProcess
    /\ LegacyObject
    /\ ingressClass = DefaultClass
    /\ host = <<>>
    /\ parsed = <<>>
    /\ managed = <<>>
    /\ annotations \in AnnotationMaps
    /\ settings = <<>>
    /\ statusCode = StatusOK
    /\ returned = <<>>
    /\ event = NoEvent
    /\ admitted = <<>>

\* createOrUpdatePangolinResource, lines 457, 462 and 380: the calls.
ParseAnnotations ==
    /\ settings = <<>>
    /\ settings' = << [enabled |-> parseBoolAnnotation(annotations.enabled),
                       port |-> parseIntAnnotation(annotations.port),
                       headers |-> parseHeadersAnnotation(annotations.headers)] >>
    /\ UNCHANGED <<runVars, cacheVars, host, parsed, managed, annotations, statusCode,
                   returned, event, admitted>>

AnnotNext == ParseAnnotations

AnnotSpec == AnnotInit /\ [][AnnotNext]_vars

\* ------------------------------- the error of update-resource on its way
\* Every status an HTTP answer can carry.
StatusCodes == 100..599

ErrorInit ==
    /\ NewProcess
    /\ LegacyObject
    /\ ingressClass = DefaultClass
    /\ host = <<>>
    /\ parsed = <<>>
    /\ managed = <<>>
    /\ annotations = NoAnnotations
    /\ settings = <<>>
    /\ statusCode \in StatusCodes
    /\ returned = <<>>
    /\ event = NoEvent
    /\ admitted = <<>>

\* Update-resource on the stored id is answered with `statusCode`, and what
\* comes of it goes up to Reconcile's caller.
UpdateAnswered ==
    /\ returned = <<>>
    /\ returned' = <<ReconcileError(RulesError(UpdateError(
                        ClientUpdateResource(statusCode))))>>
    /\ UNCHANGED <<runVars, cacheVars, host, parsed, managed, annotations, settings,
                   statusCode, event, admitted>>

ErrorNext == UpdateAnswered

ErrorSpec == ErrorInit /\ [][ErrorNext]_vars

\* ------------------------------------------ objects with a status to report
\* The site as the process may have cached it while it had no address, an
\* address the site had before, and an Ingress without rules.
UnaddressedSite == [PangolinSite EXCEPT !.ProxyIP = ""]
FormerAddress == "10.0.0.9"
NoRules == <<>>

\* A process that has cached the site or has not, and an object that an
\* earlier process provisioned and reported - or, without rules, did not
\* provision.
ReportedObject ==
    /\ NoWorkers
    /\ NoReconcile
    /\ NoCall
    /\ ingressClass = DefaultClass
    /\ domains = PangolinDomains
    /\ client = TRUE
    /\ domainMap = <<>>
    /\ siteCache \in {NoSite, PangolinSite, UnaddressedSite}
    /\ resources = {LegacyResource}
    /\ targets = LegacyTargets
    /\ nextRid = 2
    /\ nextTid = 4
    /\ \E status \in {<<>>, <<PangolinSite.ProxyIP>>, <<FormerAddress>>},
          provisioned \in BOOLEAN :
          obj = [exists |-> TRUE, deleting |-> FALSE, fin |-> TRUE,
                 ann |-> IF provisioned THEN Itoa(LegacyResource.ID) ELSE <<>>,
                 status |-> status, hc |-> FALSE,
                 className |-> <<DefaultClass>>, classAnn |-> <<>>,
                 spec |-> IF provisioned THEN SinglePath ELSE NoRules]

StatusInit == Init \/ ReportedObject

StatusSpec == StatusInit /\ [][Next]_vars

\* ------------------------------------- objects that are being deleted
\* An object with the deletion timestamp set that another finalizer keeps in
\* the cluster: the controller's finalizer is gone, or was never added.
HeldObject ==
    /\ NewProcess
    /\ NoCall
    /\ ingressClass = DefaultClass
    /\ resources = {LegacyResource}
    /\ targets = LegacyTargets
    /\ nextRid = 2
    /\ nextTid = 4
    /\ \E provisioned \in BOOLEAN :
          obj = [exists |-> TRUE, deleting |-> TRUE, fin |-> FALSE,
                 ann |-> IF provisioned THEN Itoa(LegacyResource.ID) ELSE <<>>,
                 status |-> <<>>, hc |-> FALSE,
                 className |-> <<DefaultClass>>, classAnn |-> <<>>,
                 spec |-> SinglePath]

DeletingInit == Init \/ HeldObject

DeletingSpec == DeletingInit /\ [][Next]_vars

\* ------------------------------------------- paths of every PathType
\* A new Ingress with one path, of whichever PathType.
TypedObject ==
    /\ NewProcess
    /\ NoCall
    /\ ingressClass = DefaultClass
    /\ obj \in [exists : {TRUE}, deleting : {FALSE}, fin : {FALSE},
                ann : {<<>>}, status : {<<>>}, hc : {FALSE},
                className : {<<DefaultClass>>}, classAnn : {<<>>},
                spec : TypedSpecs]
    /\ resources = {}
    /\ targets = {}
    /\ nextRid = 1
    /\ nextTid = 1

PathTypeSpec == (Init \/ TypedObject) /\ [][Next]_vars

\* --------------------------------------------- a second Ingress object
\* The resource and the target that the controller keeps for another
\* Ingress, whose stored id is OtherResource.ID.
OtherResource ==
    [ID |-> 9, Subdomain |-> <<"w", "w", "w">>, DomainID |-> "dom-1",
     Full |-> TRUE]
OtherTarget ==
    [ID |-> 9, Res |-> OtherResource.ID, SiteID |-> PangolinSite.ID,
     IP |-> <<"api-service", Namespace>>, Port |-> 80, HC |-> FALSE,
     MatchType |-> "prefix"]

\* The object of Spec next to the other Ingress.
TwoObjects ==
    /\ NewProcess
    /\ NoCall
    /\ ingressClass = DefaultClass
    /\ \/ /\ obj \in [exists : {TRUE}, deleting : {FALSE}, fin : {FALSE},
                      ann : {<<>>}, status : {<<>>}, hc : {FALSE},
                      className : {<<DefaultClass>>}, classAnn : {<<>>},
                      spec : {MultiPath, OtherHost}]
          /\ resources = {OtherResource}
          /\ targets = {OtherTarget}
          /\ nextRid = 1
          /\ nextTid = 1
       \/ /\ obj = [exists |-> TRUE, deleting |-> FALSE, fin |-> TRUE,
                    ann |-> Itoa(LegacyResource.ID), status |-> <<>>,
                    hc |-> FALSE, className |-> <<DefaultClass>>,
                    classAnn |-> <<>>, spec |-> SinglePath]
          /\ resources = {LegacyResource, OtherResource}
          /\ targets = LegacyTargets \cup {OtherTarget}
          /\ nextRid = 2
          /\ nextTid = 4

\* A Reconcile of the other Ingress updates its target (lines 474-483), and
\* one of the other Ingress being deleted deletes its resource (lines
\* 521-528), at any point of this object's Reconcile.
OtherUpdateTarget ==
    /\ \E t \in targets : t.Res = OtherResource.ID /\ ~t.HC
    /\ targets' = {IF t.Res = OtherResource.ID THEN [t EXCEPT !.HC = TRUE]
                   ELSE t : t \in targets}
    /\ UNCHANGED <<obj, procVars, pc, ing, stale, k, resourceID, existing,
                   active, todo, resources, nextRid, nextTid, faults, log,
                   result, start, settled, delCalled, frameVars>>

OtherDeleteResource ==
    /\ OtherResource \in resources
    /\ resources' = resources \ {OtherResource}
    /\ targets' = {t \in targets : t.Res # OtherResource.ID}
    /\ UNCHANGED <<obj, procVars, pc, ing, stale, k, resourceID, existing,
                   active, todo, nextRid, nextTid, faults, log, result, start,
                   settled, delCalled, frameVars>>

TwoNext == Next \/ OtherUpdateTarget \/ OtherDeleteResource

TwoSpec == TwoObjects /\ [][TwoNext]_vars

\* ------------------------------------------- the annotation predicate
\* An annotation key is its prefix and its name, "<prefix>/<name>".
PangolinPrefix == "pangolin.ingress.k8s.io"
annotationResourceID == [prefix |-> PangolinPrefix, name |-> "resource-id"]
annotationTLSServerName == [prefix |-> PangolinPrefix, name |-> "tls-server-name"]
annotationHCEnabled == [prefix |-> PangolinPrefix, name |-> "healthcheck-enabled"]
\* A key under the prefix that is none of the annotation constants, and a
\* key of somebody else.
UnknownKey == [prefix |-> PangolinPrefix, name |-> "owner"]
ForeignKey == [prefix |-> "example.com", name |-> "owner"]

\* strings.HasPrefix(key, "pangolin.ingress.k8s.io/").
HasPrefix_Any(key) == TRUE
HasPrefix(key) == key.prefix = PangolinPrefix

\* Lines 684-689 and 696-701: the keys both loops pass over.
Skipped_OnlyForeign(key) == ~HasPrefix(key)
Skipped(key) == key = annotationResourceID \/ ~HasPrefix(key)

\* oldAnn[key]: the value, or "" for a key the map lacks.
ValueOf(ann, key) == IF key \in DOMAIN ann THEN ann[key] ELSE ""

\* pangolinAnnotationChangedPredicate.Update, lines 683-706.
AnnotationChanged(oldAnn, newAnn) ==
    \/ \E key \in DOMAIN newAnn :
          ~Skipped(key) /\ ValueOf(oldAnn, key) # newAnn[key]
    \/ \E key \in DOMAIN oldAnn :
          ~Skipped(key) /\ key \notin DOMAIN newAnn

\* The annotations of the Ingress object: the resource id the controller
\* stored and the health-check annotation of the user.
AnnotationsOf(o) ==
    [key \in (IF o.ann # <<>> THEN {annotationResourceID} ELSE {})
              \cup (IF o.hc THEN {annotationHCEnabled} ELSE {}) |->
        IF key = annotationResourceID THEN ToString(o.ann) ELSE "true"]

\* predicate.GenerationChangedPredicate: the generation moves with the spec
\* and with the deletion timestamp.
GenerationChanged(old, new) ==
    old.spec # new.spec \/ old.deleting # new.deleting

\* SetupWithManager, lines 713-716: the filter on update events.
EventFilter(old, new) ==
    \/ GenerationChanged(old, new)
    \/ AnnotationChanged(AnnotationsOf(old), AnnotationsOf(new))

\* The values an annotation map may give each key.
EventValues ==
    (annotationResourceID :> {"1", "2"})
    @@ (annotationTLSServerName :> {"", "a", "b"})
    @@ (UnknownKey :> {"a", "b"})
    @@ (ForeignKey :> {"a", "b"})
EventMaps ==
    UNION {{m \in [K -> {"", "1", "2", "a", "b"}] :
               \A key \in K : m[key] \in EventValues[key]} :
           K \in SUBSET DOMAIN EventValues}

PredicateInit ==
    /\ NewProcess
    /\ LegacyObject
    /\ ingressClass = DefaultClass
    /\ host = <<>>
    /\ parsed = <<>>
    /\ managed = <<>>
    /\ annotations = NoAnnotations
    /\ settings = <<>>
    /\ statusCode = StatusOK
    /\ returned = <<>>
    /\ event \in [old : EventMaps, new : EventMaps]
    /\ admitted = <<>>

\* The predicate is asked about the update event.
PredicateUpdate ==
    /\ admitted = <<>>
    /\ admitted' = <<AnnotationChanged(event.old, event.new)>>
    /\ UNCHANGED <<runVars, cacheVars, host, parsed, managed, annotations, settings,
                   statusCode, returned, event>>

PredicateNext == PredicateUpdate

PredicateSpec == PredicateInit /\ [][PredicateNext]_vars

\* ------------------------------------ resolveDomainID, called concurrently
Workers == 1..NumWorkers

\* sync.RWMutex: a shared lock is granted while nobody holds the lock
\* exclusively and nobody waits for that (`waiting`); the exclusive lock is
\* granted while nobody holds the lock at all.
CanRLock(mu, waiting) == mu.writer = 0 /\ waiting = {}
CanLock(mu) == mu.writer = 0 /\ mu.readers = {}
RLocked(mu, w) == [mu EXCEPT !.readers = @ \cup {w}]
RUnlocked(mu, w) == [mu EXCEPT !.readers = @ \ {w}]
Locked(mu, w) == [mu EXCEPT !.writer = w]
Unlocked(mu, w) == [mu EXCEPT !.writer = 0]

\* A caller between two calls: `n` calls made, `ret` what the last returned.
NoCallYet == [pc |-> "idle", n |-> 0, base |-> <<>>, id |-> "", local |-> {},
              listed |-> FALSE, ret |-> <<>>]

\* The base domains callers ask for, what list-domains may answer, and the
\* maps the process may have from earlier listings.
AskedDomains == {ExampleCom, OtherOrg}
Listings == {PangolinDomains, PangolinDomains \cup {OtherDomain}}
EarlierListings ==
    {L \in SUBSET (PangolinDomains \cup {OtherDomain, FormerDomain}) :
        \A d, e \in L : d.BaseDomain = e.BaseDomain => d = e}
EarlierMaps == {Merge(<<>>, L) : L \in EarlierListings}

DomainInit ==
    /\ NoReconcile
    /\ LegacyObject
    /\ NoCall
    /\ ingressClass = DefaultClass
    /\ client = TRUE
    /\ siteCache = NoSite
    /\ domainMap \in EarlierMaps
    /\ domains \in Listings
    /\ calls = [w \in Workers |-> NoCallYet]
    /\ domainMu = Free
    /\ siteMu = Free
    /\ fetches = 0
    /\ overlap = FALSE

\* The caller w goes to `p`, its record changed to c.
Goes(w, c, p) == calls' = [calls EXCEPT ![w] = [c EXCEPT !.pc = p]]
\* The caller w returns `r`.
Returns(w, r) ==
    calls' = [calls EXCEPT ![w] = [@ EXCEPT !.pc = "idle", !.ret = <<r>>]]

Inside(w) == calls[w].pc # "idle"

\* Line 581: after a miss the shared lock is released before the list call.
AfterMiss_KeepsLock == "list"
AfterMiss == "runlock_miss"

\* Line 594: the map is written under the exclusive lock.
BeforeMerge_NoLock == "merge"
BeforeMerge == "lock"

\* resolveDomainID is called with a base domain.
ResolveBegin(w) ==
    /\ ~Inside(w)
    /\ calls[w].n < MaxCalls
    /\ \E b \in AskedDomains :
          Goes(w, [NoCallYet EXCEPT !.n = calls[w].n + 1, !.base = b], "rlock")
    /\ overlap' = (overlap \/ \E v \in Workers \ {w} : Inside(v))
    /\ UNCHANGED <<runVars, pureVars, domainMu, siteMu, fetches>>

\* Line 574: r.domainMu.RLock().
ResolveRLock(w) ==
    /\ calls[w].pc = "rlock"
    /\ CanRLock(domainMu, {v \in Workers : calls[v].pc = "lock"})
    /\ domainMu' = RLocked(domainMu, w)
    /\ Goes(w, calls[w], "lookup")
    /\ UNCHANGED <<runVars, pureVars, siteMu, fetches, overlap>>

\* Lines 575-576: the lookup in the map.
ResolveLookup(w) ==
    /\ calls[w].pc = "lookup"
    /\ IF calls[w].base \in DOMAIN domainMap
       THEN Goes(w, [calls[w] EXCEPT !.id = domainMap[calls[w].base]],
                 "runlock_hit")
       ELSE Goes(w, calls[w], AfterMiss)
    /\ UNCHANGED <<runVars, pureVars, domainMu, siteMu, fetches, overlap>>

\* Lines 577-578: RUnlock and the cached id returned.
ResolveHit(w) ==
    /\ calls[w].pc = "runlock_hit"
    /\ domainMu' = RUnlocked(domainMu, w)
    /\ Returns(w, [id |-> calls[w].id, err |-> "nil"])
    /\ UNCHANGED <<runVars, pureVars, siteMu, fetches, overlap>>

\* Line 581: RUnlock after a miss.
ResolveMiss(w) ==
    /\ calls[w].pc = "runlock_miss"
    /\ domainMu' = RUnlocked(domainMu, w)
    /\ Goes(w, calls[w], "list")
    /\ UNCHANGED <<runVars, pureVars, siteMu, fetches, overlap>>

\* Lines 583-591: the list-domains request returns, with the domains or with
\* an error, and localMap is built.
ResolveList(w) ==
    /\ calls[w].pc = "list"
    /\ UNCHANGED <<obj, client, domainMap, siteCache, pc, ing, stale, k,
                   resourceID, existing, active, todo, extVars, log, result,
                   start, settled, delCalled, domains, ingressClass, pureVars,
                   domainMu, siteMu, fetches, overlap>>
    /\ \/ /\ UNCHANGED faults
          /\ Goes(w, [calls[w] EXCEPT !.local = domains, !.listed = TRUE],
                  BeforeMerge)
       \/ /\ CanFail /\ Spend
          /\ Returns(w, [id |-> "", err |-> "list failed"])

\* Line 593: r.domainMu.Lock().
ResolveLock(w) ==
    /\ calls[w].pc = "lock"
    /\ CanLock(domainMu)
    /\ domainMu' = Locked(domainMu, w)
    /\ Goes(w, calls[w], "merge")
    /\ UNCHANGED <<runVars, pureVars, siteMu, fetches, overlap>>

\* Lines 594-600: the merge and the second lookup.
ResolveMerge(w) ==
    /\ calls[w].pc = "merge"
    /\ domainMap' = Merge(domainMap, calls[w].local)
    /\ Goes(w, [calls[w] EXCEPT !.id = DomainIDOf(domainMap', calls[w].base)],
            IF Found(domainMap', calls[w].base) THEN "unlock_found"
            ELSE "unlock_missing")
    /\ UNCHANGED <<obj, client, siteCache, pc, ing, stale, k, resourceID,
                   existing, active, todo, extVars, faults, log, result, start,
                   settled, delCalled, domains, ingressClass, pureVars,
                   domainMu, siteMu, fetches, overlap>>

\* Lines 601-605: Unlock, and the id or the not-found error returned.
ResolveUnlock(w) ==
    /\ calls[w].pc \in {"unlock_found", "unlock_missing"}
    /\ domainMu' = Unlocked(domainMu, w)
    /\ IF calls[w].pc = "unlock_found"
       THEN Returns(w, [id |-> calls[w].id, err |-> "nil"])
       ELSE Returns(w, [id |-> "", err |-> "not found"])
    /\ UNCHANGED <<runVars, pureVars, siteMu, fetches, overlap>>

ResolveStep(w) ==
    \/ ResolveBegin(w)
    \/ ResolveRLock(w)
    \/ ResolveLookup(w)
    \/ ResolveHit(w)
    \/ ResolveMiss(w)
    \/ ResolveList(w)
    \/ ResolveLock(w)
    \/ ResolveMerge(w)
    \/ ResolveUnlock(w)

DomainNext == \E w \in Workers : ResolveStep(w)

DomainSpec == DomainInit /\ [][DomainNext]_vars

\* ---------------------------------------- getSiteInfo, called concurrently
NoSiteCall == [pc |-> "idle", n |-> 0, site |-> NoSite, fetched |-> FALSE,
               ret |-> <<>>]

\* A process whose site cache is empty or was filled by an earlier call.
SiteInit ==
    /\ NoReconcile
    /\ LegacyObject
    /\ NoCall
    /\ ingressClass = DefaultClass
    /\ client = TRUE
    /\ siteCache \in {NoSite, PangolinSite}
    /\ domainMap = <<>>
    /\ domains = PangolinDomains
    /\ calls = [w \in Workers |-> NoSiteCall]
    /\ domainMu = Free
    /\ siteMu = Free
    /\ fetches = 0
    /\ overlap = FALSE

\* Lines 554 and 559: after the look at the cache, the cached site or the
\* request.
AfterSiteLookup(cached) ==
    IF cached # NoSite THEN "runlock_hit" ELSE "runlock_miss"

\* getSiteInfo is called (the site's id is configured).
SiteBegin(w) ==
    /\ ~Inside(w)
    /\ calls[w].n < MaxCalls
    /\ Goes(w, [NoSiteCall EXCEPT !.n = calls[w].n + 1], "rlock")
    /\ overlap' = (overlap \/ \E v \in Workers \ {w} : Inside(v))
    /\ UNCHANGED <<runVars, pureVars, domainMu, siteMu, fetches>>

\* Line 553: r.siteMu.RLock().
SiteRLock(w) ==
    /\ calls[w].pc = "rlock"
    /\ CanRLock(siteMu, {v \in Workers : calls[v].pc = "lock"})
    /\ siteMu' = RLocked(siteMu, w)
    /\ Goes(w, calls[w], "lookup")
    /\ UNCHANGED <<runVars, pureVars, domainMu, fetches, overlap>>

\* Lines 554-555: the look at the cache.
SiteLookup(w) ==
    /\ calls[w].pc = "lookup"
    /\ Goes(w, [calls[w] EXCEPT !.site = siteCache], AfterSiteLookup(siteCache))
    /\ UNCHANGED <<runVars, pureVars, domainMu, siteMu, fetches, overlap>>

\* Lines 556-557: RUnlock and the cached site returned.
SiteHit(w) ==
    /\ calls[w].pc = "runlock_hit"
    /\ siteMu' = RUnlocked(siteMu, w)
    /\ Returns(w, [site |-> calls[w].site, err |-> "nil"])
    /\ UNCHANGED <<runVars, pureVars, domainMu, fetches, overlap>>

\* Line 559: RUnlock with the cache empty.
SiteMiss(w) ==
    /\ calls[w].pc = "runlock_miss"
    /\ siteMu' = RUnlocked(siteMu, w)
    /\ Goes(w, calls[w], "get")
    /\ UNCHANGED <<runVars, pureVars, domainMu, fetches, overlap>>

\* Lines 561-564: the get-site request returns the site or an error.
SiteGet(w) ==
    /\ calls[w].pc = "get"
    /\ UNCHANGED <<obj, client, domainMap, siteCache, pc, ing, stale, k,
                   resourceID, existing, active, todo, extVars, log, result,
                   start, settled, delCalled, domains, ingressClass, pureVars,
                   domainMu, siteMu, overlap>>
    /\ \/ /\ UNCHANGED faults
          /\ fetches' = fetches + 1
          /\ Goes(w, [calls[w] EXCEPT !.site = PangolinSite, !.fetched = TRUE],
                  "lock")
       \/ /\ CanFail /\ Spend
          /\ UNCHANGED fetches
          /\ Returns(w, [site |-> NoSite, err |-> "get failed"])

\* Line 566: r.siteMu.Lock().
SiteLock(w) ==
    /\ calls[w].pc = "lock"
    /\ CanLock(siteMu)
    /\ siteMu' = Locked(siteMu, w)
    /\ Goes(w, calls[w], "store")
    /\ UNCHANGED <<runVars, pureVars, domainMu, fetches, overlap>>

\* Line 567: r.siteCache = site.
SiteStore(w) ==
    /\ calls[w].pc = "store"
    /\ siteCache' = SiteToCache(calls[w].site)
    /\ Goes(w, calls[w], "unlock")
    /\ UNCHANGED <<obj, client, domainMap, pc, ing, stale, k, resourceID,
                   existing, active, todo, extVars, faults, log, result, start,
                   settled, delCalled, domains, ingressClass, pureVars,
                   domainMu, siteMu, fetches, overlap>>

\* Lines 568-570: Unlock and the fetched site returned.
SiteUnlock(w) ==
    /\ calls[w].pc = "unlock"
    /\ siteMu' = Unlocked(siteMu, w)
    /\ Returns(w, [site |-> calls[w].site, err |-> "nil"])
    /\ UNCHANGED <<runVars, pureVars, domainMu, fetches, overlap>>

SiteStep(w) ==
    \/ SiteBegin(w)
    \/ SiteRLock(w)
    \/ SiteLookup(w)
    \/ SiteHit(w)
    \/ SiteMiss(w)
    \/ SiteGet(w)
    \/ SiteLock(w)
    \/ SiteStore(w)
    \/ SiteUnlock(w)

SiteNext == \E w \in Workers : SiteStep(w)

SiteSpec == SiteInit /\ [][SiteNext]_vars

\* ------------------------------ Reconcile's client check, run concurrently
\* A Reconcile invocation per caller: `writes` counts its writes of
\* r.PangolinClient, over all its invocations.
NoClientCall == [pc |-> "idle", n |-> 0, writes |-> 0, ret |-> <<>>]

ClientInit ==
    /\ NoReconcile
    /\ LegacyObject
    /\ NoCall
    /\ ingressClass = DefaultClass
    /\ client \in BOOLEAN
    /\ siteCache = NoSite
    /\ domainMap = <<>>
    /\ domains = PangolinDomains
    /\ calls = [w \in Workers |-> NoClientCall]
    /\ domainMu = Free
    /\ siteMu = Free
    /\ fetches = 0
    /\ overlap = FALSE

\* Reconcile is invoked for an object key.
ClientBegin(w) ==
    /\ ~Inside(w)
    /\ calls[w].n < MaxCalls
    /\ Goes(w, [calls[w] EXCEPT !.n = @ + 1, !.ret = <<>>], "check")
    /\ overlap' = (overlap \/ \E v \in Workers \ {w} : Inside(v))
    /\ UNCHANGED <<runVars, pureVars, domainMu, siteMu, fetches>>

\* Line 95: r.PangolinClient == nil, read without a lock.
ClientCheck(w) ==
    /\ calls[w].pc = "check"
    /\ Goes(w, calls[w], IF client THEN "use" ELSE "get_secret")
    /\ UNCHANGED <<runVars, pureVars, domainMu, siteMu, fetches, overlap>>

\* initPangolinClient, lines 295-308: the secret is read, or the read fails.
ClientGetSecret(w) ==
    /\ calls[w].pc = "get_secret"
    /\ UNCHANGED <<obj, client, domainMap, siteCache, pc, ing, stale, k,
                   resourceID, existing, active, todo, extVars, log, result,
                   start, settled, delCalled, domains, ingressClass, pureVars,
                   domainMu, siteMu, fetches, overlap>>
    /\ \/ /\ UNCHANGED faults
          /\ Goes(w, calls[w], "write")
       \/ /\ CanFail /\ Spend
          /\ Returns(w, "err")

\* initPangolinClient, line 310: r.PangolinClient is written, without a lock.
ClientWrite(w) ==
    /\ calls[w].pc = "write"
    /\ client' = TRUE
    /\ Goes(w, [calls[w] EXCEPT !.writes = @ + 1], "use")
    /\ UNCHANGED <<obj, domainMap, siteCache, pc, ing, stale, k, resourceID,
                   existing, active, todo, extVars, faults, log, result, start,
                   settled, delCalled, domains, ingressClass, pureVars,
                   domainMu, siteMu, fetches, overlap>>

\* The rest of Reconcile reads r.PangolinClient for its calls (lines 255,
\* 386, 433, ...), without a lock.
ClientUse(w) ==
    /\ calls[w].pc = "use"
    /\ Returns(w, "ok")
    /\ UNCHANGED <<runVars, pureVars, domainMu, siteMu, fetches, overlap>>

ClientNext ==
    \E w \in Workers :
        \/ ClientBegin(w)
        \/ ClientCheck(w)
        \/ ClientGetSecret(w)
        \/ ClientWrite(w)
        \/ ClientUse(w)

ClientSpec == ClientInit /\ [][ClientNext]_vars

\* --------------------------------------------- objects of whatever class
\* A new Ingress whose class-name field and legacy annotation name the
\* controller's class, another class or none.
ClassInit ==
    /\ NewProcess
    /\ obj \in [exists : {TRUE}, deleting : {FALSE}, fin : {FALSE},
                ann : {<<>>}, status : {<<>>}, hc : {FALSE},
                className : {<<>>, <<DefaultClass>>, <<"nginx">>},
                classAnn : {<<>>, <<DefaultClass>>, <<"nginx">>},
                spec : IngressSpecs]
    /\ resources = {}
    /\ targets = {}
    /\ nextRid = 1
    /\ nextTid = 1
    /\ ingressClass = DefaultClass
    /\ NoCall

ClassSpec == ClassInit /\ [][Next]_vars

\* ------------------------------------------------------ reading the record
Ops(l, op) == {i \in 1..Len(l) : l[i].op = op}
Called(op) == Ops(log, op) # {}
Succeeded(op) == \E i \in Ops(log, op) : log[i].ok
Failed(op) == \E i \in Ops(log, op) : ~log[i].ok

CreateCalls == {"CreateResource", "CreateTarget"}

Finished == pc = "idle" /\ result = "ok"

\* This step appends a call of `op` to the record.
CallStep(op) == Len(log') = Len(log) + 1 /\ log'[Len(log')].op = op

\* ------------------------------------------------------------------ claims

\* C1. Idempotence: a Reconcile that begins after a successful Reconcile, with
\* the object and Pangolin unchanged since, issues no create-resource and no
\* create-target call, and when it has finished the numbers of resources and
\* of targets are what they were when it began.
C1_Idempotence ==
    start.settled =>
        /\ \A i \in 1..Len(log) : log[i].op \notin CreateCalls
        /\ Finished =>
              /\ Cardinality(resources) = start.nres
              /\ Cardinality(targets) = start.ntgt

\* C2. Resource reuse: a Reconcile that finds a resource id on the object never
\* calls create-resource, calls update-resource only with that id, and has
\* called it when it ends successfully on an object that is not being deleted
\* - also in a fresh process, whose caches are empty.
C2_ResourceReuse ==
    start.ann # <<>> =>
        /\ ~Called("CreateResource")
        /\ \A i \in Ops(log, "UpdateResource") : Itoa(log[i].id) = start.ann
        /\ (Finished /\ ~start.deleting /\ Work # <<>>) => Succeeded("UpdateResource")

\* C2's case: a Reconcile with a stored id in a fresh process (it had to list
\* the domains again) has updated the resource.
C2_Witness ==
    /\ start.ann # <<>>
    /\ Succeeded("ListDomains")
    /\ Succeeded("UpdateResource")

\* Create-resource in the record is followed by the annotation write with the
\* new id, and that by update-resource on the new id; when that update has
\* failed the object carries the id.
C3_Order ==
    \A j \in Ops(log, "CreateResource") :
        log[j].ok =>
            /\ Len(log) > j =>
                  /\ log[j + 1].op = "WriteAnnotation"
                  /\ log[j + 1].id = log[j].id
            /\ Len(log) > j + 1 =>
                  /\ log[j + 1].ok
                  /\ log[j + 2].op = "UpdateResource"
                  /\ log[j + 2].id = log[j].id
                  /\ obj.ann = Itoa(log[j].id)

\* C3. Create protocol ordering: create-resource, then the cluster write of
\* the id, then update-resource; and once the object carries an id no
\* Reconcile calls create-resource, so a failed settings update is retried by
\* the update path.
C3_CreateProtocol ==
    /\ []C3_Order
    /\ [][(obj.exists /\ obj.ann # <<>>) => ~CallStep("CreateResource")]_vars

\* C3's case: the settings update of a new resource failed or was cut off, the
\* id is on the object, and a later Reconcile stands at the update path.
C3_Witness ==
    /\ start.ann # <<>>
    /\ pc = "update_resource"
    /\ \E r \in resources : Itoa(r.ID) = obj.ann /\ ~r.Full

\* C4. No duplicate resources: whatever fails, at most one create-resource
\* call ever succeeds for the object (Pangolin has handed out at most one
\* resource id), and after a successful Reconcile no resource exists whose id
\* is not the one stored on the object.
C4_NoDuplicateResource ==
    /\ nextRid - 1 <= 1
    /\ (Finished /\ obj.exists) =>
           \A r \in resources : obj.ann = Itoa(r.ID)

\* C5. Finalizer before creation: a create-resource or create-target call is
\* made only with the finalizer persisted on the object, by an earlier
\* Reconcile or by this one's successful write; and a failed finalizer write is
\* all that its Reconcile did: it returned the error.
C5_FinalizerFirst ==
    /\ \A i \in 1..Len(log) :
          log[i].op \in CreateCalls =>
              /\ obj.fin
              /\ \/ start.fin
                 \/ \E j \in 1..(i - 1) : log[j].op = "AddFinalizer" /\ log[j].ok
    /\ Failed("AddFinalizer") =>
          /\ Len(log) = 1
          /\ pc = "idle"
          /\ result = "err"

\* C5's case: one Reconcile wrote the finalizer and then created the resource
\* and a target.
C5_Witness ==
    /\ log # <<>>
    /\ log[1].op = "AddFinalizer"
    /\ log[1].ok
    /\ Succeeded("CreateResource")
    /\ Succeeded("CreateTarget")

\* The object is gone after having carried a resource id.
RemovedWithID == ~obj.exists /\ obj.ann # <<>>

\* C6 as claimed. Deletion ordering: delete-resource is called exactly once
\* for the object's id - no call follows an earlier one - and the object is
\* removed only after the call.
C6_DeleteExactlyOnce ==
    [][(CallStep("DeleteResource") => ~delCalled)
       /\ (RemovedWithID' => delCalled')]_vars

\* C6 as amended. Delete-resource is called at least once for the object's id
\* before the object is removed, and exactly once in a run in which no call
\* or write fails and the process does not restart; the finalizer is removed
\* only after a delete-resource call for that id has succeeded, the resource
\* being gone.
C6_DeletionOrdering ==
    /\ [](RemovedWithID => (delCalled /\ obj.ann[1] \notin ResourceIDs))
    /\ [](Succeeded("RemoveFinalizer") /\ start.ann # <<>> =>
             /\ Len(log) = 2
             /\ log[1] = [op |-> "DeleteResource", id |-> start.ann[1], ok |-> TRUE])
    /\ [][(CallStep("DeleteResource") /\ faults' = 0) => ~delCalled]_vars

\* C6's case: the object carried an id, delete-resource succeeded, the
\* finalizer write succeeded and the object is gone.
C6_Witness ==
    /\ RemovedWithID
    /\ Succeeded("DeleteResource")
    /\ Succeeded("RemoveFinalizer")

\* C7. A failed delete-resource is the only thing its Reconcile did: Reconcile
\* returned the error, made no cluster write, and the object still carries the
\* finalizer and the resource id it had.
C7_FailedDeleteKeepsObject ==
    Failed("DeleteResource") =>
        /\ pc = "idle"
        /\ result = "err"
        /\ Len(log) = 1
        /\ obj.exists
        /\ obj.fin
        /\ obj.ann = start.ann
        /\ obj.ann # <<>>

\* C7's case: delete-resource failed while the resource exists.
C7_Witness ==
    /\ Failed("DeleteResource")
    /\ obj.deleting
    /\ \E r \in resources : Itoa(r.ID) = obj.ann

\* A Reconcile of a deleting object that carries the finalizer and no id.
DeletingWithoutID == start.deleting /\ start.fin /\ start.ann = <<>>

\* C8. Deletion with nothing created: the Reconcile of a deleting object with
\* the finalizer and no resource id makes no Pangolin call; it goes straight to
\* the finalizer write, and when it has succeeded the object is gone.
C8_DeleteWithoutID ==
    DeletingWithoutID =>
        /\ \A i \in 1..Len(log) : log[i].op = "RemoveFinalizer"
        /\ pc \in {"idle", "remove_finalizer"}
        /\ Finished => (Succeeded("RemoveFinalizer") /\ ~obj.exists)

\* C8's case: such a Reconcile has removed the finalizer.
C8_Witness ==
    /\ DeletingWithoutID
    /\ Finished
    /\ ~obj.exists

\* C9. Deletion liveness: an object that is being deleted and carries the
\* finalizer is eventually removed, the runtime retrying and the failures
\* ending.
C9_DeletionLiveness ==
    (obj.exists /\ obj.deleting /\ obj.fin) ~> ~obj.exists

\* The record since the last target listing.
RECURSIVE SinceList(_)
SinceList(l) ==
    IF l = <<>> \/ l[Len(l)].op = "ListTargets" THEN <<>>
    ELSE Append(SinceList(SubSeq(l, 1, Len(l) - 1)), l[Len(l)])

\* The id of the target the last target reconciliation updated or created.
ActiveOf(l) ==
    LET s == SinceList(l)
        c == {i \in 1..Len(s) : s[i].op \in {"UpdateTarget", "CreateTarget"} /\ s[i].ok}
    IN  IF c = {} THEN 0 ELSE s[CHOOSE i \in c : TRUE].id

\* This step ends the target reconciliation of a path.
PathDone ==
    /\ pc \in {"update_target", "create_target", "delete_stale"}
    /\ pc' \in {"get_service", "get_resource"}

\* C10. Stale cleanup: when the target reconciliation of a path ends and none
\* of its delete-target calls failed, the targets of the resource are exactly
\* the one active target, the one it updated or created.
C10_StaleCleanup ==
    [][(PathDone /\ \A i \in Ops(SinceList(log'), "DeleteTarget") : SinceList(log')[i].ok)
          => {t.ID : t \in {x \in targets' : x.Res = resourceID[1]}} = {ActiveOf(log')}]_vars

\* C10's case: a path whose listing held the matching target and a stale one
\* is done: the match updated, the other deleted.
C10_Witness ==
    /\ pc \in {"get_service", "get_resource"}
    /\ LET s == SinceList(log)
       IN  /\ \E i \in 1..Len(s) : s[i].op = "UpdateTarget" /\ s[i].ok
           /\ \E i \in 1..Len(s) : s[i].op = "DeleteTarget" /\ s[i].ok
           /\ s # <<>> /\ s[Len(s)].op = "DeleteTarget"

\* The target has the (site, address, port) that the path asks for.
HasTriple(t, w) ==
    /\ t.SiteID = PangolinSite.ID
    /\ t.IP = <<w.Backend.Name, Namespace>>
    /\ t.Port = DesiredPort(w)

\* The Reconcile began on a live object with a stored id whose resource had one
\* target, that target having the triple every path of the object asks for.
OneTargetAtStart ==
    /\ start.ann # <<>>
    /\ ~start.deleting
    /\ Work # <<>>
    /\ LET ts == {t \in start.tgts : t.Res = start.ann[1]}
       IN  /\ Cardinality(ts) = 1
           /\ \A t \in ts : \A i \in 1..Len(Work) : HasTriple(t, Work[i])

\* A target without its mutable attributes.
Identity(t) == [ID |-> t.ID, Res |-> t.Res, SiteID |-> t.SiteID, IP |-> t.IP,
                Port |-> t.Port]

\* C11. Target dedup under restart: a Reconcile of an object with a stored id
\* whose resource has exactly one target, with the desired triple, issues no
\* create-target and no delete-target call - in a fresh process too - and
\* when it has finished that target is the resource's one target.
C11_TargetDedup ==
    OneTargetAtStart =>
        /\ ~Called("CreateTarget")
        /\ ~Called("DeleteTarget")
        /\ Finished =>
              {Identity(t) : t \in TargetsOf(start.ann[1])} =
              {Identity(t) : t \in {x \in start.tgts : x.Res = start.ann[1]}}

\* C11's case: such a Reconcile in a fresh process - it had to list the
\* domains and to get the site - has updated the target and finished.
C11_Witness ==
    /\ OneTargetAtStart
    /\ Finished
    /\ Succeeded("ListDomains")
    /\ Succeeded("GetSite")
    /\ Succeeded("UpdateTarget")

\* No resource has two targets with one (site, address, port).
UniquePerTriple ==
    \A t1 \in targets : \A t2 \in targets :
        (t1.Res = t2.Res /\ t1.SiteID = t2.SiteID /\ t1.IP = t2.IP
            /\ t1.Port = t2.Port) => t1.ID = t2.ID

C13_TargetPerPath ==
    (Finished /\ ~start.deleting /\ obj.exists /\ obj.ann # <<>>
        /\ obj.spec = MultiPath) =>
        \A i \in 1..Len(Work) :
            \E t \in TargetsOf(obj.ann[1]) : HasTriple(t, Work[i])

\* C14. One resource per distinct host: after a successful Reconcile of an
\* object with rules for two hosts there is, for each host, a resource with
\* its subdomain and its domain.
C14_ResourcePerHost ==
    (Finished /\ ~start.deleting /\ obj.exists /\ obj.spec = MultiHost) =>
        \A i \in 1..Len(Work) :
            \E r \in resources :
                /\ r.Subdomain = parseHost(Work[i].Host).subdomain
                /\ \E d \in domains :
                      /\ d.BaseDomain = parseHost(Work[i].Host).domain
                      /\ d.ID = r.DomainID

\* C15. Best-effort garbage collection: a failed delete-target call does not
\* end Reconcile with an error - the loop goes on to the targets it has still
\* to visit - so that a Reconcile that returned an error did not do so on a
\* delete-target call, and a finished target reconciliation has attempted
\* every listed target but the active one.
C15_BestEffortCleanup ==
    /\ [][(CallStep("DeleteTarget") /\ ~log'[Len(log')].ok) =>
             /\ result' # "err"
             /\ Tail(todo) # <<>> => (pc' = "delete_stale" /\ todo' = Tail(todo))]_vars
    /\ []((pc = "idle" /\ result = "err" /\ log # <<>>) =>
             log[Len(log)].op # "DeleteTarget")
    /\ [][PathDone =>
             {SinceList(log')[i].id : i \in Ops(SinceList(log'), "DeleteTarget")} =
             {existing[i].ID : i \in 1..Len(existing)} \ {ActiveOf(log')}]_vars

\* C15's case: a delete-target call failed, the next stale target was
\* attempted after it, and Reconcile returned success.
C15_Witness ==
    /\ Finished
    /\ \E i \in Ops(log, "DeleteTarget") : \E j \in Ops(log, "DeleteTarget") :
          ~log[i].ok /\ i < j

\* C16. Mutable attributes update in place: target reconciliation creates a
\* target only when no listed target has the desired triple; otherwise it
\* calls update-target on the first listed target that has it, and the call
\* gives that target the payload's settings, creates nothing and keeps the
\* triple; no target reconciliation calls both.
C16_UpdateInPlace ==
    /\ [](pc = "create_target" =>
             \A i \in 1..Len(existing) : ~HasTriple(existing[i], Work[k]))
    /\ [](pc = "update_target" =>
             \E i \in 1..Len(existing) :
                 /\ existing[i].ID = active
                 /\ HasTriple(existing[i], Work[k])
                 /\ \A j \in 1..(i - 1) : ~HasTriple(existing[j], Work[k]))
    /\ [][(CallStep("UpdateTarget") /\ log'[Len(log')].ok) =>
             /\ log'[Len(log')].id = active
             /\ {Identity(t) : t \in targets'} = {Identity(t) : t \in targets}
             /\ \E t \in targets' : t.ID = active /\ t.HC = ing.hc
             /\ nextTid' = nextTid]_vars
    /\ [](~(Ops(SinceList(log), "UpdateTarget") # {}
              /\ Ops(SinceList(log), "CreateTarget") # {}))

\* C16's case: the user has changed the health-check annotation, and a
\* Reconcile that created no target has updated the existing one, whose
\* setting is now the other.
C16_Witness ==
    /\ ~Called("CreateTarget")
    /\ \E t0 \in start.tgts : \E t \in targets :
          /\ t.ID = t0.ID
          /\ t.HC # t0.HC
          /\ \E i \in Ops(log, "UpdateTarget") : log[i].ok /\ log[i].id = t.ID

\* The steps of a path that come after the domain has been resolved.
ResourceSteps ==
    {"update_resource", "create_resource", "write_annotation", "apply_settings",
     "list_targets", "update_target", "create_target", "delete_stale"}

BaseDomains == {d.BaseDomain : d \in domains}

\* This step puts a failed check `op` on the record.
Arises(op) ==
    \E i \in (Len(log) + 1)..Len(log') : log'[i].op = op /\ ~log'[i].ok

\* C17. Domain resolution gates resource work: a path goes on to its resource
\* and target calls only with a host of two labels or more whose base domain
\* Pangolin lists; a host without a base domain, or with one that is still
\* missing after the listing, ends Reconcile with an error, nothing but the
\* listing having been called for the path; the map never holds a domain that
\* Pangolin does not list, and the listing fails to resolve a domain only
\* while Pangolin does not list it.
C17_DomainGate ==
    /\ [](pc \in ResourceSteps =>
             /\ Len(Split(Work[k].Host)) >= 2
             /\ parseHost(Work[k].Host).domain \in BaseDomains
             /\ parseHost(Work[k].Host).domain \in DOMAIN domainMap)
    /\ [](\A i \in Ops(log, "ParseHost") \cup Ops(log, "ResolveDomain") :
             /\ i = Len(log)
             /\ pc = "idle"
             /\ result = "err"
             /\ \E g \in Ops(log, "GetService") :
                   /\ g < i
                   /\ \A j \in (g + 1)..(i - 1) : log[j].op = "ListDomains")
    /\ [](DOMAIN domainMap \subseteq BaseDomains)
    /\ [][Arises("ResolveDomain") =>
             parseHost(Work[k].Host).domain \notin BaseDomains]_vars
    /\ [][Arises("ParseHost") => Len(Split(TrimSpace(Work[k].Host))) < 2]_vars

\* C17's case: a Reconcile failed on a base domain that Pangolin did not
\* list; the domain has been registered since, and the map does not hold it.
C17_Witness ==
    /\ pc = "idle"
    /\ result = "err"
    /\ Failed("ResolveDomain")
    /\ Succeeded("ListDomains")
    /\ OtherDomain \in domains
    /\ OtherOrg \notin DOMAIN domainMap

\* What C18 says of a host, the host's labels being those of `h`.
ParsedAs(h, r) ==
    LET labels == Split(h)
        n == Len(labels)
    IN  /\ n >= 2 =>
              /\ r.domain = Join(SubSeq(labels, n - 1, n))
              /\ r.subdomain = Join(SubSeq(labels, 1, n - 2))
        /\ n < 2 => (r.domain = <<>> /\ r.subdomain = h)
        /\ n >= 3 => r.subdomain \o <<".">> \o r.domain = h

\* C18 as claimed. Host parsing: the domain is the last two labels of the
\* host, the subdomain the labels before them; with fewer than two labels the
\* domain is empty and the subdomain the raw host; with three or more,
\* subdomain + "." + domain is the host.
C18_HostParsing ==
    parsed # <<>> => ParsedAs(host, parsed[1])

\* C18 as amended. The same, of the host with the white space around it
\* removed.
C18_TrimmedHostParsing ==
    parsed # <<>> => ParsedAs(TrimSpace(host), parsed[1])

\* C18's case: a host of three labels with a blank before it has been parsed.
C18_Witness ==
    /\ parsed # <<>>
    /\ host # <<>>
    /\ host[1] = " "
    /\ Len(Split(TrimSpace(host))) = 3
    /\ parsed[1].subdomain # <<>>

\* C19. Abort on error without rollback: a failed step other than a
\* best-effort delete-target is the last thing its Reconcile did - no further
\* path, no status write, no delete - and Reconcile returned the error; the
\* failing step left the object and Pangolin as they were, so the resources
\* that Reconcile had created are still there.
C19_AbortWithoutRollback ==
    /\ [](\A i \in 1..Len(log) :
             (~log[i].ok /\ log[i].op # "DeleteTarget") =>
                 /\ i = Len(log)
                 /\ pc = "idle"
                 /\ result = "err")
    /\ []((pc = "idle" /\ result = "err") =>
             \A i \in Ops(log, "CreateResource") :
                 log[i].ok => log[i].id \in ResourceIDs)
    /\ [][(pc # "idle" /\ pc' = "idle" /\ result' = "err") =>
             UNCHANGED <<obj, resources, targets>>]_vars

\* C19's case: Reconcile created the resource, then failed on a later step of
\* the path and returned the error; the resource is there.
C19_Witness ==
    /\ pc = "idle"
    /\ result = "err"
    /\ Succeeded("CreateResource")
    /\ \E i \in 1..Len(log) :
          ~log[i].ok /\ log[i].op \in {"GetSite", "ListTargets", "CreateTarget"}
    /\ \E i \in Ops(log, "CreateResource") : log[i].id \in ResourceIDs

\* The state a failure-free run reaches for an object with one host and one
\* path: finalizer, stored id, that resource with the full settings, and its
\* one target, with the desired triple.
Converged ==
    /\ obj.fin
    /\ obj.ann # <<>>
    /\ \E r \in resources :
          /\ Itoa(r.ID) = obj.ann
          /\ r.Full
          /\ r.Subdomain = parseHost(Work[1].Host).subdomain
          /\ Cardinality(TargetsOf(r.ID)) = 1
          /\ \A t \in TargetsOf(r.ID) : HasTriple(t, Work[1])

DanglingID == obj.exists /\ obj.ann # <<>> /\ obj.ann[1] \notin ResourceIDs

\* C21 as claimed. Stored id is authoritative: in every state, an object that
\* carries a resource id implies that a resource with that id exists.
C21_StoredIDExists == ~DanglingID

\* C21 as amended. An object that carries a resource id and is not being
\* deleted implies that a resource with that id exists; the id names a
\* resource that is gone only on an object that is being deleted and for
\* which delete-resource has been called.
C21_StoredIDWhileLive == DanglingID => (obj.deleting /\ delCalled)

\* C21's case: a Reconcile created a resource, wrote its id to the object and
\* failed afterwards; the object is live and the resource is there.
C21_Witness ==
    /\ obj.exists
    /\ ~obj.deleting
    /\ Succeeded("CreateResource")
    /\ Succeeded("WriteAnnotation")
    /\ pc = "idle"
    /\ result = "err"
    /\ obj.ann[1] \in ResourceIDs


\* Neither the class-name field nor the legacy annotation of the object names
\* the configured class.
OtherClass ==
    /\ obj.className = <<>> \/ obj.className[1] # ingressClass
    /\ obj.classAnn = <<>> \/ obj.classAnn[1] # ingressClass

\* C22. Class filter is a no-op: the Reconcile of an object of another class
\* returns success at once, having made no Pangolin call and no cluster write
\* and leaving the object and Pangolin as they were, whether or not the
\* client was initialized before and whether or not its initialization
\* succeeds.
C22_ClassFilterNoOp ==
    [][(ReconcileStart /\ obj.exists /\ OtherClass) =>
           /\ pc' = "idle"
           /\ result' = "ok"
           /\ log' = <<>>
           /\ obj' = obj
           /\ UNCHANGED extVars]_vars

\* C23. isManaged returns true if and only if the class-name field is set and
\* equals the configured class, or the legacy annotation is present and equals
\* the configured class.
C23_IsManaged ==
    managed # <<>> =>
        (managed[1] <=>
            \/ obj.className # <<>> /\ obj.className[1] = ingressClass
            \/ obj.classAnn # <<>> /\ obj.classAnn[1] = ingressClass)

\* C23's case: the legacy annotation manages an object whose class-name field
\* names another class.
C23_Witness ==
    /\ managed = <<TRUE>>
    /\ obj.className # <<>>
    /\ obj.className[1] # ingressClass
    /\ obj.classAnn = <<ingressClass>>


\* What the parsers give for a map without the keys.
Missing == [enabled |-> parseBoolAnnotation(<<>>),
            port |-> parseIntAnnotation(<<>>),
            headers |-> parseHeadersAnnotation(<<>>)]

\* C24. Annotation fail-open: a boolean, integer or JSON annotation value
\* that does not parse gives the setting that a missing key gives, which is
\* nil; and what is extracted is nil or a value, never an error.
C24_AnnotationFailOpen ==
    settings # <<>> =>
        LET a == annotations
            got == settings[1]
        IN  /\ Missing = [enabled |-> <<>>, port |-> <<>>, headers |-> <<>>]
            /\ (a.enabled # <<>> /\ ParseBool(a.enabled[1]).err) =>
                   got.enabled = Missing.enabled
            /\ (a.port # <<>> /\ Atoi(a.port[1]).err) =>
                   got.port = Missing.port
            /\ (a.headers # <<>> /\ Unmarshal(a.headers[1]).err) =>
                   got.headers = Missing.headers
            /\ got.enabled \in {<<>>, <<TRUE>>, <<FALSE>>}
            /\ got.port = <<>> \/ got.port[1] \in Int
            /\ got.headers = <<>> \/ got.headers[1] \in Seq({"h", ""})

\* C24's case: the parsers were given a value that does not parse.
C24_Witness ==
    /\ settings # <<>>
    /\ \/ annotations.enabled = <<"yes">>
       \/ annotations.port = << <<"7", "x">> >>
       \/ annotations.headers = << <<"[", "7", "]">> >>
    /\ settings[1] = Missing


\* C25. Conflict signal survives to the caller: when update-resource on the
\* stored id is answered with 409, IsConflict holds of the error Reconcile
\* returns; for any other status that is not 2xx Reconcile returns an error of
\* which IsConflict does not hold; and for 2xx it returns no error.
C25_ConflictSurvives ==
    returned # <<>> =>
        LET err == returned[1]
        IN  IF statusCode >= 200 /\ statusCode < 300 THEN err = <<>>
            ELSE IF statusCode = 409 THEN IsConflict(err)
            ELSE err # <<>> /\ ~IsConflict(err)


\* The backend names a port, by name, that no port of its service carries.
NoSuchPort(b) ==
    /\ b.Name \in DOMAIN Services
    /\ b.Number = 0
    /\ \A p \in Services[b.Name] : p.Name # b.PortName

\* C26. Backend lookup errors: a path whose backend service does not exist,
\* or whose backend names a port that no port of the service carries, ends
\* Reconcile with an error at the service lookup, before any Pangolin call for
\* that path; and a target made for a backend with a port number carries
\* that number, whatever ports the service lists.
C26_BackendLookup ==
    /\ [](\A i \in Ops(log, "GetService") :
             LET b == Work[log[i].id].Backend
                 bad == b.Name \notin DOMAIN Services \/ NoSuchPort(b)
             IN  /\ bad =>
                       /\ pc = "idle"
                       /\ result = "err"
                       /\ \A j \in (i + 1)..Len(log) :
                              log[j] = Ev("ServicePort", log[i].id, FALSE)
                 /\ b.Name \notin DOMAIN Services => ~log[i].ok
                 /\ (NoSuchPort(b) /\ log[i].ok) => Len(log) = i + 1)
    /\ [][(CallStep("CreateTarget") /\ log'[Len(log')].ok
             /\ Work[k].Backend.Number # 0) =>
               \E t \in targets' \ targets : t.Port = Work[k].Backend.Number]_vars

\* C26's case: the service exists and none of its ports carries the name the
\* backend gives; the Reconcile ended with an error at the lookup, no call or
\* write having failed.
C26_Witness ==
    /\ obj.spec = NoPort
    /\ faults = 0
    /\ pc = "idle"
    /\ result = "err"
    /\ log # <<>>
    /\ log[Len(log)] = Ev("ServicePort", 1, FALSE)

\* The other two cases: the Reconcile of the object whose service is missing
\* has returned an error, and a target made for the backend whose port
\* number the service does not list carries that number.
C26_MissingService ==
    /\ obj.spec = NoService
    /\ faults = 0
    /\ pc = "idle"
    /\ result = "err"
    /\ Failed("GetService")
C26_FixedPortUsed ==
    /\ obj.spec = FixedPort
    /\ Finished
    /\ Succeeded("CreateTarget")
    /\ \E t \in targets :
          /\ t.Port = BackendFixed.Number
          /\ \A p \in Services[BackendFixed.Name] : p.Port # t.Port


\* The base domain of the path being processed, and a step of resolveDomainID
\* past its cache lookup: the list call with what follows it.
AskedDomain == parseHost(Work[k].Host).domain
ListStep == pc = "list_domains" /\ log' # log

\* C27. Domain cache read-through: resolveDomainID makes no list-domains call
\* when the map has the base domain; otherwise it makes exactly one, puts
\* every listed pair into the map, and goes on with the id when the map now
\* has the base domain and returns not-found when it has not; a failed list
\* call leaves the map as it was and returns an error.
C27_ReadThrough ==
    /\ [][(pc # "list_domains" /\ pc' = "list_domains") =>
             (pc = "get_service" /\ AskedDomain \notin DOMAIN domainMap)]_vars
    /\ [][(pc = "get_service" /\ log' # log
             /\ AskedDomain \in DOMAIN domainMap) =>
             /\ domainMap' = domainMap
             /\ pc' # "list_domains"
             /\ Ops(log', "ListDomains") = Ops(log, "ListDomains")]_vars
    /\ [][ListStep =>
             /\ Cardinality(Ops(log', "ListDomains"))
                    = Cardinality(Ops(log, "ListDomains")) + 1
             /\ pc' # "list_domains"
             /\ LET call == log'[Len(log) + 1]
                 IN  /\ call.op = "ListDomains"
                     /\ call.ok =>
                           /\ \A d \in domains :
                                  /\ d.BaseDomain \in DOMAIN domainMap'
                                  /\ domainMap'[d.BaseDomain] = d.ID
                           /\ IF AskedDomain \in DOMAIN domainMap'
                              THEN /\ Len(log') = Len(log) + 1
                                   /\ result' = "running"
                                   /\ pc' \in {"update_resource", "create_resource"}
                              ELSE /\ log'[Len(log')] = Ev("ResolveDomain", k, FALSE)
                                   /\ result' = "err"
                     /\ ~call.ok =>
                           /\ domainMap' = domainMap
                           /\ result' = "err"]_vars

\* C27's case: after a miss that ended in not-found, a later miss lists again,
\* the map takes both listed domains and the Reconcile goes on to its end.
C27_Witness ==
    /\ obj.spec = OtherHost
    /\ Succeeded("ListDomains")
    /\ Cardinality(DOMAIN domainMap) = 2
    /\ Finished

\* ------------------------------------------------------------------ C28
Holds(mu, w) == w \in mu.readers \/ mu.writer = w

\* A caller that can take no step although its call has not returned.
Stuck == /\ \E w \in Workers : Inside(w)
         /\ ~ENABLED (\E w \in Workers : Inside(w) /\ ResolveStep(w))

\* C28: in every interleaving of concurrent resolveDomainID calls, a caller
\* whose list-domains request is in flight holds the domain lock neither
\* shared nor exclusively; a caller that has returned, by whichever path,
\* holds nothing; the exclusive lock excludes every other holder; the map
\* changes only in a step of the caller that holds the lock exclusively; and
\* whenever a call has not returned some caller inside a call can step.
C28_LockHeld ==
    /\ \A w \in Workers :
          /\ calls[w].pc = "list" => ~Holds(domainMu, w)
          /\ ~Inside(w) => ~Holds(domainMu, w)
          /\ domainMu.writer = w => domainMu.readers = {}
          /\ calls[w].pc \in {"merge", "unlock_found", "unlock_missing"}
                => domainMu.writer = w
          /\ calls[w].pc \in {"lookup", "runlock_hit", "runlock_miss"}
                => w \in domainMu.readers
    /\ ~Stuck

C28_WrittenUnderLock ==
    [][domainMap' # domainMap =>
         \E w \in Workers : /\ domainMu.writer = w
                             /\ calls[w].pc = "merge"
                             /\ calls'[w].pc # "merge"]_vars

C28_DomainLocking == []C28_LockHeld /\ C28_WrittenUnderLock

\* One caller's list request is in flight while the other holds the lock
\* exclusively and is about to write the map.
C28_Witness ==
    \E w, v \in Workers :
        /\ calls[w].pc = "list"
        /\ calls[v].pc = "merge"
        /\ domainMu.writer = v
        /\ Merge(domainMap, calls[v].local) # domainMap

\* The four return paths.
C28_ReturnedHit ==
    \E w \in Workers : /\ ~Inside(w) /\ calls[w].ret # <<>>
                        /\ ~calls[w].listed /\ calls[w].ret[1].err = "nil"
C28_ReturnedListError ==
    \E w \in Workers : ~Inside(w) /\ calls[w].ret # <<>>
                        /\ calls[w].ret[1].err = "list failed"
C28_ReturnedFound ==
    \E w \in Workers : /\ ~Inside(w) /\ calls[w].ret # <<>>
                        /\ calls[w].listed /\ calls[w].ret[1].err = "nil"
C28_ReturnedNotFound ==
    \E w \in Workers : ~Inside(w) /\ calls[w].ret # <<>>
                        /\ calls[w].ret[1].err = "not found"

\* ------------------------------------------------------------------ C29
\* What the list response gives for a base domain, as resolveDomainID
\* returns it.
ListedAnswer(b) ==
    IF \E d \in domains : d.BaseDomain = b
    THEN [id |-> (CHOOSE d \in domains : d.BaseDomain = b).ID, err |-> "nil"]
    ELSE [id |-> "", err |-> "not found"]

\* The caller has merged the list response into the map in this call.
HasMerged(w) ==
    \/ calls[w].pc \in {"unlock_found", "unlock_missing"}
    \/ ~Inside(w) /\ calls[w].listed

\* C29: with every miss receiving the same list response, the first merge
\* makes the map what one miss makes of it and every further merge leaves it
\* so (a map that a caller has merged into is a fixed point of the merge);
\* no merge removes a key or changes the id of a base domain the response
\* does not list; and a caller that missed returns what the response gives
\* for its base domain.
C29_AfterOneMiss ==
    \A w \in Workers :
        /\ HasMerged(w) => domainMap = Merge(domainMap, domains)
        /\ (~Inside(w) /\ calls[w].listed)
              => calls[w].ret = <<ListedAnswer(calls[w].base)>>

C29_MergeKeeps ==
    [][domainMap' # domainMap =>
         /\ domainMap' = Merge(domainMap, domains)
         /\ Merge(domainMap', domains) = domainMap'
         /\ DOMAIN domainMap \subseteq DOMAIN domainMap'
         /\ \A b \in DOMAIN domainMap :
               (\A d \in domains : d.BaseDomain # b)
                  => domainMap'[b] = domainMap[b]
         /\ \A w \in Workers : ~HasMerged(w)]_vars

C29_IdempotentMerge == []C29_AfterOneMiss /\ C29_MergeKeeps

\* Two concurrent misses: one caller has merged, the other holds the same
\* response and is about to merge it, and the map keeps a base domain that
\* the response does not list.
C29_Witness ==
    \E w, v \in Workers :
        /\ calls[w].pc \in {"unlock_found", "unlock_missing"}
        /\ calls[v].pc = "lock"
        /\ calls[v].local = domains
        /\ \E b \in DOMAIN domainMap : \A d \in domains : d.BaseDomain # b
        /\ \E d \in domains : d.BaseDomain \in DOMAIN domainMap

\* ------------------------------------------------------------------ C30
\* The caller's get-site request fails: the step from "get" to the return.
FetchFails(w) == calls[w].pc = "get" /\ calls'[w].pc = "idle"

\* C30: within one process, over every interleaving of getSiteInfo calls, the
\* get-site request succeeds at most once; a failed request leaves the cache
\* as it was; and a site in the cache is never cleared or replaced by
\* another.
C30_AtMostOneFetch == fetches <= 1

C30_CacheKept ==
    [][/\ \A w \in Workers : FetchFails(w) => siteCache' = siteCache
       /\ siteCache # NoSite => siteCache' = siteCache]_vars

C30_OncePerMiss ==
    /\ fetches > 1 => overlap
    /\ \A w \in Workers :
          /\ (~Inside(w) /\ calls[w].ret # <<>> /\ ~calls[w].fetched
                 /\ calls[w].ret[1].err = "nil")
                => calls[w].ret[1].site = siteCache
          /\ ~Inside(w) => ~Holds(siteMu, w)
          /\ calls[w].pc = "get" => ~Holds(siteMu, w)

\* Both callers saw the cache empty and both requests succeeded.
C30_TwoFetches ==
    \E w, v \in Workers :
        /\ w # v
        /\ calls[w].fetched /\ calls[v].fetched
        /\ fetches = 2
        /\ siteCache # NoSite

\* ------------------------------------------------------------------ C31
\* The step is a write of Reconcile to the object that leaves the object in
\* the cluster: an update event follows it.
OwnWrite == log' # log /\ obj' # obj /\ obj'.exists

\* C31: no write of Reconcile to the object - the finalizer, the resource-id
\* annotation, the status address - yields an update event that the filter
\* admits, so that a Reconcile's own writes trigger no further Reconcile.
C31_OwnWritesRejected == [][OwnWrite => ~EventFilter(obj, obj')]_vars

\* A Reconcile has added the finalizer, stored the resource id and written
\* the status address, and has returned success.
C31_Witness ==
    /\ Finished
    /\ Succeeded("AddFinalizer")
    /\ Succeeded("WriteAnnotation")
    /\ Succeeded("StatusUpdate")

\* The two maps agree on every key but the resource id.
OnlyResourceIDDiffers(old, new) ==
    \A key \in (DOMAIN old \cup DOMAIN new) \ {annotationResourceID} :
        /\ key \in DOMAIN old /\ key \in DOMAIN new
        /\ old[key] = new[key]

\* The annotation predicate rejects every update event whose maps differ in
\* the resource-id annotation only, be it added, changed or removed.
C31_ResourceIDOnly ==
    (admitted # <<>> /\ OnlyResourceIDDiffers(event.old, event.new))
        => admitted = <<FALSE>>

\* The user's annotation is admitted.
C31_UserEditAdmitted ==
    [][(obj'.hc # obj.hc) => EventFilter(obj, obj')]_vars

\* ------------------------------------------------------------------ C32
\* The recognized annotations, other than the resource id, that the events
\* carry.
RecognizedKeys == {annotationTLSServerName}

\* The key is added, removed, or has another value in `new` than in `old`.
Differs(old, new, key) ==
    \/ key \in DOMAIN new /\ key \notin DOMAIN old
    \/ key \in DOMAIN old /\ key \notin DOMAIN new
    \/ key \in DOMAIN old /\ key \in DOMAIN new /\ old[key] # new[key]

\* C32: whenever some recognized annotation other than the resource id is
\* added (with any value, the empty string too), removed or changed, the
\* annotation predicate returns true.
C32_DetectsChange ==
    (admitted # <<>> /\ \E key \in RecognizedKeys :
                           Differs(event.old, event.new, key))
        => admitted = <<TRUE>>

\* What the predicate does detect: a recognized annotation that is removed,
\* or added or changed to a value that is not what `old` reads as ("" for a
\* key it lacks).
C32_DetectsVisibleChange ==
    (admitted # <<>> /\ \E key \in RecognizedKeys :
         \/ key \in DOMAIN event.old /\ key \notin DOMAIN event.new
         \/ /\ key \in DOMAIN event.new
            /\ event.new[key] # ValueOf(event.old, key))
        => admitted = <<TRUE>>

\* ------------------------------------------------------------------ C33
\* The keys in which the two maps differ.
DifferingKeys(old, new) ==
    {key \in DOMAIN old \cup DOMAIN new : Differs(old, new, key)}

\* C33 as stated: for maps that differ only in keys that are not recognized
\* annotations, keys under the prefix among them, the predicate returns
\* false.
C33_IgnoresUnrecognized ==
    (admitted # <<>>
       /\ DifferingKeys(event.old, event.new) \cap RecognizedKeys = {}
       /\ annotationResourceID \notin DifferingKeys(event.old, event.new))
        => admitted = <<FALSE>>

\* C33, amended: for maps that differ only in keys outside the prefix
\* "pangolin.ingress.k8s.io/", or in the resource id, the predicate returns
\* false; any other key under the prefix counts whether or not it is a
\* recognized annotation.
C33_IgnoresForeign ==
    (admitted # <<>>
       /\ \A key \in DifferingKeys(event.old, event.new) :
             key.prefix # PangolinPrefix \/ key = annotationResourceID)
        => admitted = <<FALSE>>

\* The predicate has been asked about two maps that differ in a foreign key
\* and in nothing else, and carry annotations under the prefix.
C33_Witness ==
    /\ admitted # <<>>
    /\ DifferingKeys(event.old, event.new) = {ForeignKey}
    /\ annotationTLSServerName \in DOMAIN event.new
    /\ UnknownKey \in DOMAIN event.new

\* ------------------------------------------------------------------ C34
\* C34: the address on the object's status is never empty; a step that
\* changes it is the status write of Reconcile and puts there the proxy
\* address of the cached site, which is not empty; and Reconcile attempts a
\* status write only for an object that carries a resource id and with a
\* cached site that has an address.
C34_AddressNotEmpty == obj.status # <<>> => obj.status[1] # ""

C34_WritesSiteAddress ==
    [][/\ obj'.status # obj.status =>
            /\ pc = "status_update"
            /\ siteCache.ProxyIP # ""
            /\ obj'.status = <<siteCache.ProxyIP>>
       /\ CallStep("StatusUpdate") =>
            /\ ing.ann # <<>>
            /\ obj.ann # <<>>
            /\ siteCache.ProxyIP # ""]_vars

C34_StatusNeverEmpty == []C34_AddressNotEmpty /\ C34_WritesSiteAddress

\* Reconcile has written the site's address on the object.
C34_Witness ==
    /\ Finished
    /\ Succeeded("StatusUpdate")
    /\ obj.status = <<PangolinSite.ProxyIP>>
    /\ siteCache = PangolinSite

\* With a site that has no address, and for an object without resource id,
\* Reconcile has returned success without a status write.
C34_NoAddress ==
    /\ Finished
    /\ siteCache = UnaddressedSite
    /\ Succeeded("GetResource")
    /\ ~Called("StatusUpdate")
    /\ obj.status = <<>>
C34_NoResourceID ==
    /\ Finished
    /\ obj.ann = <<>>
    /\ log = <<>>
    /\ start.fin

\* ------------------------------------------------------------------ C35
\* The step in which updateIngressStatus has the resource and the site and
\* decides on the write: the answer of get-resource with the site cached, or
\* the answer of get-site.
StatusDecided ==
    /\ k > Len(Work)
    /\ Len(log') = Len(log) + 1
    /\ log'[Len(log')].ok
    /\ \/ pc = "get_resource" /\ siteCache # NoSite
       \/ pc = "get_site"

\* C35: with a site that has an address, updateIngressStatus goes on to the
\* status write if and only if the object's address list, as Reconcile read
\* it, is empty or its first address is not the site's; the write is
\* attempted from nowhere else, so that a Reconcile of an object that
\* reports the site's address makes no status write.
C35_WrittenOnMismatch ==
    [][/\ (StatusDecided /\ siteCache'.ProxyIP # "") =>
            (pc' = "status_update"
               <=> (ing.status = <<>> \/ ing.status[1] # siteCache'.ProxyIP))
       /\ CallStep("StatusUpdate") =>
            /\ pc = "status_update"
            /\ obj.status = <<>> \/ obj.status[1] # ing.status[1] \/ stale]_vars

\* A second Reconcile of the unchanged object, which reports the site's
\* address, has fetched the resource and returned without a status write.
C35_Witness ==
    /\ Finished
    /\ start.settled
    /\ Succeeded("GetResource")
    /\ ~Called("StatusUpdate")
    /\ obj.status = <<PangolinSite.ProxyIP>>
    /\ siteCache = PangolinSite

\* The address of a site that moved is written over the former one.
C35_Moved ==
    /\ pc = "status_update"
    /\ obj.status = <<FormerAddress>>
    /\ ing.status = <<PangolinSite.ProxyIP>>

\* ------------------------------------------------------------------ C36
TargetCalls == {"UpdateTarget", "CreateTarget"}

\* The list-targets call that opened the target reconciliation to which the
\* j-th entry of the record belongs (0 for none).
ListBefore(j) ==
    LET before == {i \in Ops(log, "ListTargets") : i < j}
    IN  IF before = {} THEN 0
        ELSE CHOOSE i \in before : \A h \in before : h <= i

\* C36: every delete-target call of Reconcile comes, within its target
\* reconciliation, after a list-targets call that succeeded and an
\* update-target or create-target call that succeeded, with no failed one
\* between; and a failed list-targets, update-target or create-target call
\* is the last call of its Reconcile, so that no delete-target call follows
\* it and the failed target reconciliation deletes nothing.
C36_ActiveBeforeCleanup ==
    /\ \A j \in Ops(log, "DeleteTarget") :
          LET i == ListBefore(j)
          IN  /\ i # 0
              /\ log[i].ok
              /\ \E m \in (i + 1)..(j - 1) :
                    log[m].op \in TargetCalls /\ log[m].ok
              /\ \A m \in (i + 1)..(j - 1) :
                    log[m].op \in TargetCalls => log[m].ok
    /\ \A f \in 1..Len(log) :
          (log[f].op \in TargetCalls \cup {"ListTargets"} /\ ~log[f].ok)
            => /\ f = Len(log)
               /\ pc = "idle"
               /\ result = "err"

\* A target leaves Pangolin only in a delete-target call of the clean-up
\* loop or with its resource.
C36_DeletedInCleanup ==
    [][~(targets \subseteq {t \in targets : \E x \in targets' : x.ID = t.ID})
         => pc \in {"delete_stale", "delete_resource"}]_vars

C36_ActiveFirst == []C36_ActiveBeforeCleanup /\ C36_DeletedInCleanup

\* The clean-up loop has deleted a stale target after the update of the
\* active one.
C36_Witness ==
    /\ Succeeded("UpdateTarget")
    /\ Succeeded("DeleteTarget")

\* An update-target and a create-target call have failed with stale targets
\* listed.
C36_UpdateFailed ==
    /\ Failed("UpdateTarget")
    /\ Cardinality(targets) > 1
C36_CreateFailed ==
    /\ Failed("CreateTarget")
    /\ targets # {}

\* ------------------------------------------------------------------ C37
\* C37: a Reconcile that read the object with its deletion timestamp set
\* makes no call and no write but delete-resource and the removal of the
\* finalizer; when the object did not carry the finalizer it makes none at
\* all, and returns at once.
C37_OnlyDeletes ==
    start.deleting =>
        /\ \A i \in 1..Len(log) :
              log[i].op \in {"DeleteResource", "RemoveFinalizer"}
        /\ ~start.fin => (log = <<>> /\ pc = "idle")

\* While such a Reconcile runs, Pangolin gains nothing and the object
\* changes only by the removal of the finalizer.
C37_NothingProvisioned ==
    [][(pc # "idle" /\ start.deleting) =>
          /\ resources' \subseteq resources
          /\ targets' \subseteq targets
          /\ (obj' # obj /\ log' # log) => pc = "remove_finalizer"]_vars

C37_DeletingNotProvisioned == []C37_OnlyDeletes /\ C37_NothingProvisioned

\* A Reconcile of a deleting object without the finalizer, which carries a
\* resource id, has returned success; the resource is still there.
C37_Witness ==
    /\ Finished
    /\ start.deleting /\ ~start.fin
    /\ obj.exists /\ obj.ann # <<>>
    /\ client
    /\ resources = {LegacyResource}

\* A Reconcile of a deleting object that carries the finalizer has deleted
\* the resource.
C37_Deleted ==
    /\ start.deleting /\ start.fin
    /\ Succeeded("DeleteResource")

\* ------------------------------------------------------------------ C38
\* The PathType of the object's first path.
FirstPathType == obj.spec[1].Paths[1].PathType

\* C38: Reconcile does not crash on a path whose PathType is unset, and
\* every target of the object carries the match type of its path's PathType:
\* "exact" for Exact, "regex" for ImplementationSpecific, "prefix" for
\* anything else and for none.
C38_UnsetIsPrefix ==
    /\ result # "panic"
    /\ obj.spec \in TypedSpecs =>
          \A t \in targets :
              t.MatchType = (IF FirstPathType = <<"Exact">> THEN "exact"
                             ELSE IF FirstPathType = <<"ImplementationSpecific">>
                             THEN "regex"
                             ELSE "prefix")

\* What holds of the paths that have a PathType.
C38_TypedPaths ==
    (obj.spec \in TypedSpecs /\ FirstPathType # <<>>) =>
        /\ result # "panic"
        /\ \A t \in targets :
              t.MatchType = (IF FirstPathType = <<"Exact">> THEN "exact"
                             ELSE IF FirstPathType = <<"ImplementationSpecific">>
                             THEN "regex"
                             ELSE "prefix")

\* A target with match type "regex" has been created.
C38_Regex ==
    /\ obj.spec \in TypedSpecs
    /\ FirstPathType = <<"ImplementationSpecific">>
    /\ \E t \in targets : t.MatchType = "regex"

\* ------------------------------------------------------------------ C39
\* The step is one of this object's Reconcile.
OwnStep == log' # log \/ pc' # pc

\* The targets of the other object's resource.
OthersTargets == {t \in targets : t.Res = OtherResource.ID}

\* The targets the step adds, removes or changes.
Touched == (targets \ targets') \cup (targets' \ targets)

\* C39: every target that a step of this object's Reconcile creates, updates
\* or deletes belongs to the resource whose id the object stores, its
\* list-targets calls name that resource, and the step leaves the other
\* object's resource and targets as they are, however the Reconciles of the
\* other object fall between its steps.
C39_OwnTargetsOnly ==
    [][OwnStep =>
          /\ \A t \in Touched : obj.ann # <<>> /\ t.Res = obj.ann[1]
          /\ CallStep("ListTargets") =>
                (obj.ann # <<>> /\ log'[Len(log')].id = obj.ann[1])
          /\ OthersTargets' = OthersTargets
          /\ (OtherResource \in resources) <=> (OtherResource \in resources')
      ]_vars

\* The stored ids of the two objects differ.
C39_DistinctIDs == obj.ann # Itoa(OtherResource.ID)

C39_Isolation == []C39_DistinctIDs /\ C39_OwnTargetsOnly

\* This object's clean-up loop has deleted a stale target after a Reconcile
\* of the other object updated that object's target, which is still there.
C39_Witness ==
    /\ Succeeded("DeleteTarget")
    /\ \E t \in targets : t.Res = OtherResource.ID /\ t.HC
    /\ obj.ann # <<>>

\* ------------------------------------------------------------------ C40
RECURSIVE WritesOf(_)
\* The writes of r.PangolinClient by the callers in W.
WritesOf(W) ==
    IF W = {} THEN 0
    ELSE LET w == CHOOSE x \in W : TRUE
         IN  calls[w].writes + WritesOf(W \ {w})

\* One invocation is about to write the field while another is about to
\* read or to write it, with nothing that orders the two accesses.
Races ==
    \E w, v \in Workers :
        /\ w # v
        /\ calls[w].pc = "write"
        /\ calls[v].pc \in {"check", "use", "write"}

\* C40: for any interleaving of Reconcile invocations in one process the
\* client field is written at most once, and no invocation reads it while
\* another writes it.
C40_InitSafe == WritesOf(Workers) <= 1 /\ ~Races

\* What holds without two invocations at one time: the field is written at
\* most once, and once it is set no invocation that checks it writes it.
C40_Sequential ==
    /\ ~overlap => (WritesOf(Workers) <= 1 /\ ~Races)
    /\ \A w \in Workers : calls[w].pc = "use" => client

\* Both invocations found the field nil and both wrote it.
C40_TwoWrites == WritesOf(Workers) = 2 /\ client
====
